---- MODULE Spec2Model ----
(***************************************************************************)
(* Model of the annotation orchestration engine of Epub-Annotator          *)
(* (src/src/annotate.mjs).  Texts are sequences of one-character strings,  *)
(* so that the regular expressions and string operations of the source    *)
(* are modelled by what they do to the characters.                         *)
(***************************************************************************)
EXTENDS Integers, Sequences, FiniteSets, TLC

VARIABLES
  pc,               \* position of the operation under way
  text,             \* the text an operation is applied to
  maxTokens,        \* token budget handed to splitIntoTokenChunks
  chunks,           \* the chunks returned by splitIntoTokenChunks
  chunkParas,       \* per chunk: the paragraphs pushed to `current`
  chunkCosts,       \* per chunk: `currentTokens` when the chunk was closed
  tokenCountCache,  \* the Map tokenCountCache, in insertion order
  start,            \* `start` handed to normalizeFootnotesSafe
  renum,            \* {text, nextId} returned by normalizeFootnotesSafe(text, start)
  renumAgain,       \* {text, nextId} returned by a second call on renum.text
  chunk,            \* the original chunk handed to annotateChunkWithPrompt
  marks,            \* response: inline markers inserted before each character
  defs,             \* response: the definition lines appended after the body
  deleted,          \* response: the original word left out (0: none)
  extra,            \* response: where text of the model's own was added
  content,          \* the response text: resp.choices[0].message.content
  outcome,          \* what annotateChunkWithPrompt returned or threw
  storeLimit,       \* VocabMemory.storeLimit
  terms,            \* VocabMemory.terms
  lower,            \* VocabMemory.lower
  file,             \* the vocabulary-memory file: its parsed JSON, or a marker
  written,          \* the payload of the last save of this run
  run,              \* processFile: which run over the manuscript this is
  resume,           \* processFile: the option `resume`
  preserveChunks,   \* processFile: KEEP_CHUNKS || preserveChunks
  idx,              \* processFile: `idx`, the chunk the loop is at
  tries,            \* processFile: `tries` of the chunk under way
  lastErr,          \* processFile: the message of `lastErr`
  checkpoints,      \* the chunk files of cacheDir: index -> text
  subchunks,        \* annotateShrunkSubchunks: `subchunks`
  subIdx,           \* annotateShrunkSubchunks: `subIdx` + 1
  annotatedParts,   \* annotateShrunkSubchunks: `annotatedParts`
  annotatedChunks,  \* processFile: the checkpoints read at combination
  combined,         \* processFile: `combined`, one text per chunk
  combineNextId,    \* processFile: `nextId` of the combination loop
  output,           \* the file at finalOutputPath
  call,             \* the model call of the step just taken, with its reply
  thrown,           \* the error processFile has thrown
  memoryWritable,   \* whether the vocabulary-memory file can be written
  outputWritable,   \* whether the output file can be written
  maxRetries,       \* callChatWithBackoff: `maxRetries`
  attemptNo,        \* callChatWithBackoff: `attempt`
  delaySeconds,     \* callChatWithBackoff: `delaySeconds`, in microseconds
  invocations,      \* callChatWithBackoff: calls of postResponsesStream so far
  lastError,        \* callChatWithBackoff: what the last invocation ended with
  sleeps,           \* callChatWithBackoff: the calls of delay() so far
  raised,           \* callChatWithBackoff: what it returned or threw
  responseBody,     \* postResponsesStream: the body the endpoint sends
  stream,           \* postResponsesStream: the part of the body not yet read
  buffer,           \* postResponsesStream: `buffer`
  collected,        \* postResponsesStream: `collected`
  timerArmed,       \* postResponsesStream: the timeout is set and not cleared
  streamOutcome,    \* postResponsesStream: what it returned or threw
  counted,          \* countTokens: the texts of the calls so far, by length
  countRepeats,     \* countTokens: the calls with a text counted before
  cacheSize,        \* countTokens: the cache size the run is configured with
  countModel,       \* countTokens: the model name of the last call
  tokenCount,       \* countTokens: the value the last call returned
  inputPaths,       \* the input files of two runs
  baseDirs          \* the base cache directories derived for the two runs

chunkerVars == <<maxTokens, chunks, chunkParas, chunkCosts, tokenCountCache>>
renumVars == <<start, renum, renumAgain>>
responseVars == <<marks, defs, deleted, extra, content>>
validatorVars == <<chunk, responseVars, outcome>>
vocabVars == <<storeLimit, terms, lower, file, written>>
processVars ==
  <<run, resume, preserveChunks, idx, tries, lastErr, checkpoints, subchunks,
    subIdx, annotatedParts, annotatedChunks, combined, combineNextId, output,
    call, thrown, memoryWritable, outputWritable>>
backoffVars ==
  <<maxRetries, attemptNo, delaySeconds, invocations, lastError, sleeps,
    raised>>
streamVars ==
  <<responseBody, stream, buffer, collected, timerArmed, streamOutcome>>
countVars == <<counted, countRepeats, cacheSize, countModel, tokenCount>>
pathVars == <<inputPaths, baseDirs>>
serviceVars == <<backoffVars, streamVars, countVars, pathVars>>
vars ==
  <<pc, text, chunkerVars, renumVars, validatorVars, vocabVars, processVars,
    serviceVars>>

----------------------------------------------------------------------------
(* Characters.                                                             *)

NL == "\n"
SP == " "
CR == "\r"
\* the characters matched by \s
WS == {SP, NL, CR}
\* the em dash and en dash matched by [—–] (one representative)
DASH == "D"
\* an emoji of ALLOWED_EMOJIS, and a symbol that is not in it
EMOJI == "E"
OTHER_EMOJI == "X"
DIGITS == <<"0", "1", "2", "3", "4", "5", "6", "7", "8", "9">>
IsDigit(c) == \E d \in 1..10 : DIGITS[d] = c
\* the characters matched by [\p{P}\p{S}]
PUNCT == {".", ":", "[", "]", "^", DASH, EMOJI, OTHER_EMOJI}
\* String.length counts UTF-16 code units: an emoji such as U+1F4DA is two
UnitLen(c) == IF c \in {EMOJI, OTHER_EMOJI} THEN 2 ELSE 1

RECURSIVE Length(_)
Length(s) == IF s = <<>> THEN 0 ELSE UnitLen(Head(s)) + Length(Tail(s))

RECURSIVE TrimStart(_)
TrimStart(s) ==
  IF s = <<>> THEN s
  ELSE IF Head(s) \in WS THEN TrimStart(Tail(s)) ELSE s

RECURSIVE TrimEnd(_)
TrimEnd(s) ==
  IF s = <<>> THEN s
  ELSE IF s[Len(s)] \in WS THEN TrimEnd(SubSeq(s, 1, Len(s) - 1)) ELSE s

Trim(s) == TrimEnd(TrimStart(s))

RECURSIVE Join(_, _)
Join(parts, sep) ==
  IF parts = <<>> THEN <<>>
  ELSE IF Len(parts) = 1 THEN parts[1]
  ELSE parts[1] \o sep \o Join(Tail(parts), sep)

\* s.slice(i) with 1-based i
From(s, i) == SubSeq(s, i, Len(s))

\* whether t occurs in s at position i
OccursAt(s, t, i) ==
  /\ i >= 1
  /\ i + Len(t) - 1 <= Len(s)
  /\ SubSeq(s, i, i + Len(t) - 1) = t

----------------------------------------------------------------------------
(* TokenEstimator.                                                         *)

\* trimmed.split(/\s+/).filter(Boolean).length
RECURSIVE WordCount(_, _)
WordCount(s, inWord) ==
  IF s = <<>> THEN 0
  ELSE IF Head(s) \in WS THEN WordCount(Tail(s), FALSE)
  ELSE (IF inWord THEN 0 ELSE 1) + WordCount(Tail(s), TRUE)

RECURSIVE PunctCount(_)
PunctCount(s) ==
  IF s = <<>> THEN 0
  ELSE (IF Head(s) \in PUNCT THEN 1 ELSE 0) + PunctCount(Tail(s))

Max(a, b) == IF a >= b THEN a ELSE b
Min(a, b) == IF a <= b THEN a ELSE b

\* Math.round((words + punctuation * 0.2 + Math.round(length / 4)) / 2),
\* in tenths: round(x / 10) = floor((x + 5) / 10)
approximateTokenCount(s) ==
  IF Trim(s) = <<>> THEN 0
  ELSE LET words == WordCount(Trim(s), FALSE)
           punctuation == PunctCount(s)
           charEstimate == (Length(s) + 2) \div 4
       IN Max(1, (5 * words + punctuation + 5 * charEstimate + 5) \div 10)

TOKEN_COUNT_CACHE_SIZE == 32

CacheIndex(cache, key) ==
  IF \E k \in 1..Len(cache) : cache[k].key = key
  THEN CHOOSE k \in 1..Len(cache) : cache[k].key = key
  ELSE 0

RemoveAt(seq, k) == SubSeq(seq, 1, k - 1) \o SubSeq(seq, k + 1, Len(seq))

\* the value of an arithmetic expression that is not a number
NaN == [nan |-> TRUE, n |-> 0]

\* the value of an arithmetic expression that is the number n
Number(n) == [nan |-> FALSE, n |-> n]

\* Number.parseInt(s, 10) of a text without sign and leading blanks
RECURSIVE ParseDigits(_, _)
ParseDigits(s, acc) ==
  IF s = <<>> \/ ~IsDigit(Head(s)) THEN acc
  ELSE ParseDigits(Tail(s),
         10 * acc + (CHOOSE d \in 1..10 : DIGITS[d] = Head(s)) - 1)

ParseInt(s) ==
  IF s = <<>> \/ ~IsDigit(Head(s)) THEN NaN ELSE Number(ParseDigits(s, 0))

\* Math.max(a, b)
MathMax(a, b) == IF a.nan \/ b.nan THEN NaN ELSE Number(Max(a.n, b.n))

\* a > b
GreaterThan(a, b) == ~a.nan /\ ~b.nan /\ a.n > b.n

\* TOKEN_COUNT_CACHE_SIZE under the setting env of the environment
TokenCountCacheSize(env) ==
  MathMax(Number(TOKEN_COUNT_CACHE_SIZE), ParseInt(env))

\* countTokens of the text s under the given cache key
countTokensKeyed(size, cache, key, s) ==
  LET k == CacheIndex(cache, key) IN
  IF k > 0
  THEN [value |-> cache[k].value,
        cache |-> Append(RemoveAt(cache, k), cache[k])]
  ELSE LET tokens == approximateTokenCount(s)
           added == Append(cache, [key |-> key, value |-> tokens])
       IN [value |-> tokens,
           cache |-> IF GreaterThan(Number(Len(added)), size)
                     THEN Tail(added) ELSE added]

\* the key `${model}::${text}`
CacheKey(model, s) == model \o <<":", ":">> \o s

\* countTokens(text, model)
countTokensOfModel(size, cache, s, model) ==
  countTokensKeyed(size, cache, CacheKey(model, s), s)

\* countTokens with a cache of the given size and the one model name of a
\* run, where the text determines the key
countTokensSized(size, cache, s) == countTokensKeyed(size, cache, s, s)

\* countTokens: the value returned and the cache it leaves, with the size
\* of a setting of at most 32
countTokens(cache, s) ==
  countTokensSized(Number(TOKEN_COUNT_CACHE_SIZE), cache, s)

----------------------------------------------------------------------------
(* Chunker.                                                                *)

FOOTNOTE_MARGIN_TOKENS == 1
MIN_EFFECTIVE_CHUNK_TOKENS == 1

\* the length of the match of /\n\s*\n/ that starts at position i, or 0
RECURSIVE LastNewlineInRun(_, _, _)
LastNewlineInRun(s, j, last) ==
  IF j > Len(s) \/ s[j] \notin WS THEN last
  ELSE LastNewlineInRun(s, j + 1, IF s[j] = NL THEN j ELSE last)

ParagraphBreakAt(s, i) ==
  IF i > Len(s) \/ s[i] # NL THEN 0
  ELSE LET last == LastNewlineInRun(s, i + 1, 0)
       IN IF last = 0 THEN 0 ELSE last - i + 1

\* s.split(/\n\s*\n/)
RECURSIVE SplitFrom(_, _, _)
SplitFrom(s, from, i) ==
  IF i > Len(s) THEN <<From(s, from)>>
  ELSE LET m == ParagraphBreakAt(s, i)
       IN IF m > 0
          THEN <<SubSeq(s, from, i - 1)>> \o SplitFrom(s, i + m, i + m)
          ELSE SplitFrom(s, from, i + 1)

SplitParagraphs(s) == SplitFrom(s, 1, 1)

EffectiveMax(limit) ==
  Max(MIN_EFFECTIVE_CHUNK_TOKENS, limit - FOOTNOTE_MARGIN_TOKENS)

\* the test that closes the current chunk before a paragraph is pushed
ShouldCloseMut(current, currentTokens, tokens, effectiveMax) ==
  current # <<>> /\ currentTokens > effectiveMax

ShouldClose(current, currentTokens, tokens, effectiveMax) ==
  current # <<>> /\ currentTokens + tokens > effectiveMax

\* one iteration of the loop over the paragraphs; st is the loop's state
PushParagraphMut(st, paragraph, effectiveMax) ==
  LET ct == countTokens(st.cache, paragraph)
      close == ShouldClose(st.current, st.currentTokens, ct.value, effectiveMax)
  IN [chunks |-> IF close THEN Append(st.chunks, Join(st.current, <<NL, NL>>))
                 ELSE st.chunks,
      paras |-> IF close THEN Append(st.paras, st.current) ELSE st.paras,
      costs |-> IF close THEN Append(st.costs, st.currentTokens) ELSE st.costs,
      current |-> IF close THEN <<>> ELSE Append(st.current, paragraph),
      currentTokens |-> IF close THEN 0 ELSE st.currentTokens + ct.value,
      cache |-> ct.cache]

PushParagraph(st, paragraph, effectiveMax) ==
  LET ct == countTokens(st.cache, paragraph)
      close == ShouldClose(st.current, st.currentTokens, ct.value, effectiveMax)
  IN [chunks |-> IF close THEN Append(st.chunks, Join(st.current, <<NL, NL>>))
                 ELSE st.chunks,
      paras |-> IF close THEN Append(st.paras, st.current) ELSE st.paras,
      costs |-> IF close THEN Append(st.costs, st.currentTokens) ELSE st.costs,
      current |-> IF close THEN <<paragraph>> ELSE Append(st.current, paragraph),
      currentTokens |-> IF close THEN ct.value ELSE st.currentTokens + ct.value,
      cache |-> ct.cache]

RECURSIVE ChunkLoop(_, _, _)
ChunkLoop(st, paragraphs, effectiveMax) ==
  IF paragraphs = <<>> THEN st
  ELSE ChunkLoop(PushParagraph(st, Head(paragraphs), effectiveMax),
                 Tail(paragraphs), effectiveMax)

\* splitIntoTokenChunks: the chunks, with the paragraphs and the running
\* token sum of each chunk, and the cache countTokens leaves
\* the push of the last chunk after the loop; st is the loop's state
FlushCurrent(st) ==
  IF st.current # <<>>
  THEN [chunks |-> Append(st.chunks, Join(st.current, <<NL, NL>>)),
        paras |-> Append(st.paras, st.current),
        costs |-> Append(st.costs, st.currentTokens),
        cache |-> st.cache]
  ELSE [chunks |-> st.chunks, paras |-> st.paras, costs |-> st.costs,
        cache |-> st.cache]

splitIntoTokenChunks(s, limit, cache) ==
  FlushCurrent(
    ChunkLoop([chunks |-> <<>>, paras |-> <<>>, costs |-> <<>>,
               current |-> <<>>, currentTokens |-> 0, cache |-> cache],
              SplitParagraphs(Trim(s)), EffectiveMax(limit)))

----------------------------------------------------------------------------
(* FootnoteRenumberer.                                                     *)

\* the position just after the digits \d+ that start at position j
RECURSIVE DigitsEnd(_, _)
DigitsEnd(s, j) ==
  IF j <= Len(s) /\ IsDigit(s[j]) THEN DigitsEnd(s, j + 1) ELSE j

\* the position of the "]" of a match of /\[\^\d+\]/ that starts at i, or 0
MarkerEnd(s, i) ==
  IF i + 3 <= Len(s) /\ s[i] = "[" /\ s[i + 1] = "^" /\ IsDigit(s[i + 2])
  THEN LET e == DigitsEnd(s, i + 2)
       IN IF e <= Len(s) /\ s[e] = "]" THEN e ELSE 0
  ELSE 0

\* the match at position i of /\[\^(\d+)\]:/ (kind def) or of
\* /\[\^(\d+)\](?!:)/ (kind ref)
MatchAt(s, i) ==
  LET e == MarkerEnd(s, i)
  IN [index |-> i,
      id |-> SubSeq(s, i + 2, e - 1),
      kind |-> IF e + 1 <= Len(s) /\ s[e + 1] = ":" THEN "def" ELSE "ref"]

\* the least position of S, or 0 when there is none
FirstIn(S) == IF S = {} THEN 0 ELSE CHOOSE x \in S : \A y \in S : x <= y

\* regex.exec from lastIndex i: the start of the next match of
\* /\[\^\d+\]/, or 0
NextMarkerFrom(s, i) == FirstIn({j \in i..Len(s) : MarkerEnd(s, j) > 0})

\* every match of refRegex and of defRegex, by ascending index
RECURSIVE MatchesFrom(_, _)
MatchesFrom(s, i) ==
  LET j == NextMarkerFrom(s, i)
  IN IF j = 0 THEN <<>>
     ELSE <<MatchAt(s, j)>> \o MatchesFrom(s, MarkerEnd(s, j) + 1)

RECURSIVE SelectKind(_, _)
SelectKind(matches, kind) ==
  IF matches = <<>> THEN <<>>
  ELSE (IF Head(matches).kind = kind THEN <<Head(matches)>> ELSE <<>>)
       \o SelectKind(Tail(matches), kind)

refMatches(s) == SelectKind(MatchesFrom(s, 1), "ref")
defMatches(s) == SelectKind(MatchesFrom(s, 1), "def")

\* [...refMatches, ...defMatches].sort((a, b) => a.index - b.index):
\* the indexes are distinct, so the sort is the merge by index
RECURSIVE SortByIndex(_, _)
SortByIndex(a, b) ==
  IF a = <<>> THEN b
  ELSE IF b = <<>> THEN a
  ELSE IF Head(a).index < Head(b).index
       THEN <<Head(a)>> \o SortByIndex(Tail(a), b)
       ELSE <<Head(b)>> \o SortByIndex(a, Tail(b))

Reverse(seq) == [k \in 1..Len(seq) |-> seq[Len(seq) + 1 - k]]

InSeq(x, seq) == \E k \in 1..Len(seq) : seq[k] = x

\* the identifiers by first occurrence: `order`
RECURSIVE FirstSeen(_, _)
FirstSeen(matches, order) ==
  IF matches = <<>> THEN order
  ELSE FirstSeen(Tail(matches),
                 IF InSeq(Head(matches).id, order) THEN order
                 ELSE Append(order, Head(matches).id))

IdOrderMut(s) == FirstSeen(refMatches(s) \o defMatches(s), <<>>)

IdOrder(s) == FirstSeen(SortByIndex(refMatches(s), defMatches(s)), <<>>)

\* String(n) for n >= 0
RECURSIVE StringOf(_)
StringOf(n) ==
  IF n < 10 THEN <<DIGITS[n + 1]>>
  ELSE StringOf(n \div 10) \o <<DIGITS[(n % 10) + 1]>>

\* mapping.get(id): the new identifier, or <<>> for undefined
MapGet(mapping, id) ==
  IF \E k \in 1..Len(mapping) : mapping[k].old = id
  THEN mapping[CHOOSE k \in 1..Len(mapping) : mapping[k].old = id].new
  ELSE <<>>

\* a loop that gives every identifier the same new one
RECURSIVE AssignIdsMut(_, _, _)
AssignIdsMut(order, mapping, nextId) ==
  IF order = <<>> THEN [mapping |-> mapping, nextId |-> nextId + 1]
  ELSE AssignIdsMut(Tail(order),
                    Append(mapping, [old |-> Head(order), new |-> StringOf(nextId)]),
                    nextId)

\* the loop that fills `mapping` from `order`
RECURSIVE AssignIds(_, _, _)
AssignIds(order, mapping, nextId) ==
  IF order = <<>> THEN [mapping |-> mapping, nextId |-> nextId]
  ELSE AssignIds(Tail(order),
                 Append(mapping, [old |-> Head(order), new |-> StringOf(nextId)]),
                 nextId + 1)

\* the rewrite of one occurrence by slicing `result` at its index
SpliceMut(result, item, newId) ==
  SubSeq(result, 1, item.index - 1) \o <<"[", "^">> \o newId
    \o (IF item.kind = "def" THEN <<"]", ":">> ELSE <<"]">>)
    \o From(result, item.index + Len(item.id) + 3)

Splice(result, item, newId) ==
  IF item.kind = "def"
  THEN SubSeq(result, 1, item.index - 1) \o <<"[", "^">> \o newId \o <<"]", ":">>
         \o From(result, item.index + Len(item.id) + 4)
  ELSE SubSeq(result, 1, item.index - 1) \o <<"[", "^">> \o newId \o <<"]">>
         \o From(result, item.index + Len(item.id) + 3)

\* the loop over `items`, from the last occurrence to the first
RECURSIVE RewriteItems(_, _)
RewriteItems(items, st) ==
  IF items = <<>> THEN st
  ELSE LET item == Head(items)
           known == MapGet(st.mapping, item.id)
           newId == IF known = <<>> THEN StringOf(st.nextId) ELSE known
       IN RewriteItems(Tail(items),
            [result |-> Splice(st.result, item, newId),
             mapping |-> IF known = <<>>
                         THEN Append(st.mapping, [old |-> item.id, new |-> newId])
                         ELSE st.mapping,
             nextId |-> IF known = <<>> THEN st.nextId + 1 ELSE st.nextId])

normalizeFootnotesSafe(s, startId) ==
  LET assigned == AssignIds(IdOrder(s), <<>>, startId)
      items == Reverse(SortByIndex(refMatches(s), defMatches(s)))
      st == RewriteItems(items, [result |-> s, mapping |-> assigned.mapping,
                                 nextId |-> assigned.nextId])
  IN [text |-> st.result, nextId |-> st.nextId]

----------------------------------------------------------------------------
(* Validator.                                                              *)

ALLOWED_EMOJIS == {EMOJI}

\* the first position from i on that holds no whitespace
RECURSIVE WsRunEnd(_, _)
WsRunEnd(s, i) ==
  IF i <= Len(s) /\ s[i] \in WS THEN WsRunEnd(s, i + 1) ELSE i

\* text.replace(/\s+/g, ' ')
RECURSIVE CollapseFrom(_, _)
CollapseFrom(s, i) ==
  IF i > Len(s) THEN <<>>
  ELSE IF s[i] \in WS THEN <<SP>> \o CollapseFrom(s, WsRunEnd(s, i))
  ELSE <<s[i]>> \o CollapseFrom(s, i + 1)

normalizeWhitespace(s) == Trim(CollapseFrom(s, 1))

\* text.replace(/\s*([—–])\s*/g, ' $1 ')
RECURSIVE DashFrom(_, _)
DashFrom(s, i) ==
  IF i > Len(s) THEN <<>>
  ELSE LET j == WsRunEnd(s, i)
       IN IF j <= Len(s) /\ s[j] = DASH
          THEN <<SP, DASH, SP>> \o DashFrom(s, WsRunEnd(s, j + 1))
          ELSE <<s[i]>> \o DashFrom(s, i + 1)

normalizeDashSpacing(s) == DashFrom(s, 1)

Includes(s, t) == \E i \in 1..(Len(s) + 1) : OccursAt(s, t, i)

\* indexOf and lastIndexOf, 1-based, 0 when there is no occurrence
IndexOf(s, t) ==
  IF Includes(s, t)
  THEN CHOOSE i \in 1..(Len(s) + 1) :
         OccursAt(s, t, i) /\ \A j \in 1..(i - 1) : ~OccursAt(s, t, j)
  ELSE 0

LastIndexOf(s, t) ==
  IF Includes(s, t)
  THEN CHOOSE i \in 1..(Len(s) + 1) :
         OccursAt(s, t, i) /\ \A j \in (i + 1)..(Len(s) + 1) : ~OccursAt(s, t, j)
  ELSE 0

\* s.split(/\s+/)
RECURSIVE SplitWsFrom(_, _, _)
SplitWsFrom(s, from, i) ==
  IF i > Len(s) THEN <<From(s, from)>>
  ELSE IF s[i] \in WS
       THEN <<SubSeq(s, from, i - 1)>>
              \o SplitWsFrom(s, WsRunEnd(s, i), WsRunEnd(s, i))
       ELSE SplitWsFrom(s, from, i + 1)

SplitWs(s) == SplitWsFrom(s, 1, 1)

ANCHOR_WORDS == 8

firstWords(s, n) ==
  LET parts == SplitWs(s) IN Join(SubSeq(parts, 1, Min(n, Len(parts))), <<SP>>)

lastWords(s, n) ==
  LET parts == SplitWs(s)
  IN Join(SubSeq(parts, Max(1, Len(parts) - n + 1), Len(parts)), <<SP>>)

\* whether /\[\^\d+\]:/ matches at position i
IsDefAt(s, i) ==
  /\ MarkerEnd(s, i) > 0
  /\ MarkerEnd(s, i) + 1 <= Len(s)
  /\ s[MarkerEnd(s, i) + 1] = ":"

\* the last position of the match of FOOTNOTE_DEF_BLOCK_RE that starts at
\* i, or 0: the definition line and every following line up to the next
\* line that starts with a definition
RECURSIVE BlockEndFrom(_, _)
BlockEndFrom(s, j) ==
  IF j > Len(s) THEN Len(s)
  ELSE IF s[j] = NL /\ IsDefAt(s, j + 1) THEN j - 1
  ELSE BlockEndFrom(s, j + 1)

\* whether a match of FOOTNOTE_DEF_BLOCK_RE starts at position i
IsBlockStart(s, i) == i <= Len(s) /\ s[i] = NL /\ IsDefAt(s, i + 1)

DefBlockEnd(s, i) ==
  IF IsBlockStart(s, i) THEN BlockEndFrom(s, MarkerEnd(s, i + 1) + 2) ELSE 0

\* text.replace(FOOTNOTE_DEF_BLOCK_RE, ...): the text with every match
\* replaced by repl, and the matches
RECURSIVE ReplaceDefBlocks(_, _, _)
ReplaceDefBlocks(s, i, repl) ==
  LET j == FirstIn({k \in i..Len(s) : IsBlockStart(s, k)})
  IN IF j = 0 THEN [text |-> From(s, i), blocks |-> <<>>]
     ELSE LET e == DefBlockEnd(s, j)
              r == ReplaceDefBlocks(s, e + 1, repl)
          IN [text |-> SubSeq(s, i, j - 1) \o repl \o r.text,
              blocks |-> <<SubSeq(s, j, e)>> \o r.blocks]

\* text.replace(FOOTNOTE_REF_RE, '')
RECURSIVE StripRefs(_, _)
StripRefs(s, i) ==
  LET j == NextMarkerFrom(s, i)
  IN IF j = 0 THEN From(s, i)
     ELSE SubSeq(s, i, j - 1) \o StripRefs(s, MarkerEnd(s, j) + 1)

\* match.replace(/^\n/, '').trimEnd() of every block, the empty ones dropped
RECURSIVE CleanBlocks(_)
CleanBlocks(blocks) ==
  IF blocks = <<>> THEN <<>>
  ELSE LET cleaned == TrimEnd(Tail(Head(blocks)))
       IN (IF cleaned # <<>> THEN <<cleaned>> ELSE <<>>)
          \o CleanBlocks(Tail(blocks))

ensureFootnotesAtEnd(s) ==
  LET r == ReplaceDefBlocks(s, 1, <<NL>>)
      footnoteBlocks == CleanBlocks(r.blocks)
      body == TrimEnd(r.text)
  IN IF footnoteBlocks = <<>> THEN body
     ELSE TrimEnd(body \o <<NL, NL>> \o Join(footnoteBlocks, <<NL>>))

\* the candidate's body as validatePreserveSource normalizes it
BodyNorm(annotated) ==
  normalizeWhitespace(normalizeDashSpacing(
    StripRefs(ReplaceDefBlocks(annotated, 1, <<>>).text, 1)))

SrcNorm(src) == normalizeWhitespace(normalizeDashSpacing(Trim(src)))

\* a windowed match that asks for the two anchors only
WindowMatchMut(srcNorm, bodyNorm) ==
  LET fw == firstWords(srcNorm, ANCHOR_WORDS)
      lw == lastWords(srcNorm, ANCHOR_WORDS)
      st == IndexOf(bodyNorm, fw)
      en == LastIndexOf(bodyNorm, lw)
  IN st # 0 /\ en # 0 /\ en > st

\* the windowed match between the first and the last words of the source
WindowMatch(srcNorm, bodyNorm) ==
  LET fw == firstWords(srcNorm, ANCHOR_WORDS)
      lw == lastWords(srcNorm, ANCHOR_WORDS)
      st == IndexOf(bodyNorm, fw)
      en == LastIndexOf(bodyNorm, lw)
  IN /\ st # 0
     /\ en # 0
     /\ en > st
     /\ Includes(SubSeq(bodyNorm, st, Min(Len(bodyNorm), en + Len(lw) - 1)), srcNorm)

validatePreserveSourceMut(src, annotated) ==
  SrcNorm(src) = <<>> \/ Includes(SrcNorm(src), BodyNorm(annotated))

validatePreserveSource(src, annotated) ==
  LET srcNorm == SrcNorm(src)
      bodyNorm == BodyNorm(annotated)
  IN \/ srcNorm = <<>>
     \/ Includes(bodyNorm, srcNorm)
     \/ WindowMatch(srcNorm, bodyNorm)

\* the position of the end of the line that holds position i
RECURSIVE LineEnd(_, _)
LineEnd(s, i) ==
  IF i > Len(s) \/ s[i] = NL THEN i - 1 ELSE LineEnd(s, i + 1)

\* whether /^\[\^\d+\]:(.*)$/gm matches at position i
IsDefLineStart(s, i) == (i = 1 \/ s[i - 1] = NL) /\ IsDefAt(s, i)

DefLineStarts(s) == {i \in 1..Len(s) : IsDefLineStart(s, i)}

\* match[1] of the definition line that starts at i
DefContent(s, i) ==
  SubSeq(s, MarkerEnd(s, i) + 2, LineEnd(s, MarkerEnd(s, i) + 2))

validateFootnoteEmojis(s) ==
  \A i \in DefLineStarts(s) :
    LET c == TrimStart(DefContent(s, i))
    IN c # <<>> /\ Head(c) \in ALLOWED_EMOJIS

\* the check of the source alone
CheckSanitizedMut(original, sanitized) ==
  IF ~validatePreserveSource(original, sanitized)
  THEN [status |-> "source_mismatch", text |-> sanitized]
  ELSE [status |-> "accepted", text |-> sanitized]

\* the two checks of annotateChunkWithPrompt on the sanitized response
CheckSanitized(original, sanitized) ==
  IF ~validatePreserveSource(original, sanitized)
  THEN [status |-> "source_mismatch", text |-> sanitized]
  ELSE IF ~validateFootnoteEmojis(sanitized)
  THEN [status |-> "emoji_missing", text |-> sanitized]
  ELSE [status |-> "accepted", text |-> sanitized]

\* annotateChunkWithPrompt once the response has arrived: the sanitized
\* text it returns, or the reason it records and throws with
annotateChunkWithPrompt(original, response) ==
  IF response = <<>> THEN [status |-> "empty_response", text |-> <<>>]
  ELSE CheckSanitized(original, ensureFootnotesAtEnd(response))

----------------------------------------------------------------------------
(* VocabMemory.                                                            *)

\* String.prototype.toLowerCase, character by character
LowerChar(c) ==
  CASE c = "A" -> "a"
    [] c = "B" -> "b"
    [] OTHER -> c

toLowerCase(s) == [k \in 1..Len(s) |-> LowerChar(s[k])]

SeqRange(q) == {q[k] : k \in 1..Len(q)}

\* Array.prototype.slice(-n): the start is -n counted from the end when
\* negative, and 0 when n is 0
SliceLastMut(q, n) == From(q, Max(Len(q) - n, 0) + 1)

SliceLast(q, n) ==
  IF -n < 0 THEN From(q, Max(Len(q) - n, 0) + 1)
  ELSE From(q, Min(-n, Len(q)) + 1)

\* the marker of a file that does not exist, and of one that fails to parse
ABSENT == [kind |-> "absent", data |-> <<>>]
CORRUPT == [kind |-> "corrupt", data |-> <<>>]
\* a file that holds a JSON array
ArrayFile(data) == [kind |-> "array", data |-> data]
\* an entry of the JSON array that is not a string
NOT_A_STRING == <<"not_a_string">>

\* the loop of load() over the entries of the array
RECURSIVE LoadFilter(_, _, _)
LoadFilter(data, filtered, seen) ==
  IF data = <<>> THEN filtered
  ELSE LET entry == Head(data)
           clean == IF entry = NOT_A_STRING THEN <<>> ELSE Trim(entry)
       IN IF entry = NOT_A_STRING \/ clean = <<>> \/ toLowerCase(clean) \in seen
          THEN LoadFilter(Tail(data), filtered, seen)
          ELSE LoadFilter(Tail(data), Append(filtered, clean),
                          seen \cup {toLowerCase(clean)})

\* load(): the terms and the lookup set it leaves
load(f, limit) ==
  IF f.kind # "array" THEN [terms |-> <<>>, lower |-> {}]
  ELSE LET limited == SliceLast(LoadFilter(f.data, <<>>, {}), limit)
       IN [terms |-> limited,
           lower |-> {toLowerCase(limited[k]) : k \in 1..Len(limited)}]

\* the loop of addTerms, with the lookup made on the term as written
RECURSIVE AddLoopMut(_, _)
AddLoopMut(new, st) ==
  IF new = <<>> THEN st
  ELSE LET clean == Trim(Head(new))
       IN IF clean = <<>> \/ clean \in SeqRange(st.terms)
          THEN AddLoopMut(Tail(new), st)
          ELSE AddLoopMut(Tail(new),
                          [terms |-> Append(st.terms, clean),
                           lower |-> st.lower \cup {toLowerCase(clean)},
                           updated |-> TRUE])

\* the loop of addTerms over the new terms
RECURSIVE AddLoop(_, _)
AddLoop(new, st) ==
  IF new = <<>> THEN st
  ELSE LET clean == Trim(Head(new))
       IN IF clean = <<>> \/ toLowerCase(clean) \in st.lower
          THEN AddLoop(Tail(new), st)
          ELSE AddLoop(Tail(new),
                       [terms |-> Append(st.terms, clean),
                        lower |-> st.lower \cup {toLowerCase(clean)},
                        updated |-> TRUE])

addTerms(mem, new, limit) ==
  LET st == AddLoop(new, [terms |-> mem.terms, lower |-> mem.lower,
                          updated |-> FALSE])
  IN IF Len(st.terms) > limit
     THEN LET kept == SliceLast(st.terms, limit)
          IN [terms |-> kept,
              lower |-> {toLowerCase(kept[k]) : k \in 1..Len(kept)},
              updated |-> st.updated]
     ELSE st

\* the separators of extractTerms, in the order they are tried
TERM_SEPARATORS == <<<<":">>, <<SP, DASH, SP>>, <<DASH>>>>

RECURSIVE CutAtSeparator(_, _)
CutAtSeparator(candidate, seps) ==
  IF seps = <<>> THEN candidate
  ELSE IF IndexOf(candidate, Head(seps)) # 0
       THEN SubSeq(candidate, 1, IndexOf(candidate, Head(seps)) - 1)
       ELSE CutAtSeparator(candidate, Tail(seps))

\* the term of one definition line, or <<>> when the line yields none
TermOf(lineContent) ==
  LET c == Trim(lineContent)
      stripped == IF c # <<>> /\ Head(c) \in ALLOWED_EMOJIS
                  THEN TrimStart(Tail(c)) ELSE c
  IN Trim(CutAtSeparator(stripped, TERM_SEPARATORS))

\* the loop over the matches of /^\[\^\d+\]:(.*)$/gm from position i on
RECURSIVE TermsFrom(_, _)
TermsFrom(s, i) ==
  LET j == FirstIn({k \in i..Len(s) : IsDefLineStart(s, k)})
  IN IF j = 0 THEN <<>>
     ELSE LET term == TermOf(DefContent(s, j))
          IN (IF term # <<>> THEN <<term>> ELSE <<>>) \o TermsFrom(s, j + 1)

extractTerms(s) == TermsFrom(s, 1)

updateFromText(mem, s, limit) == addTerms(mem, extractTerms(s), limit)

\* the payload save() writes
SavePayload(ts, limit) == SliceLast(ts, limit)

\* recent(limit)
recent(ts, limit) == IF limit <= 0 THEN <<>> ELSE SliceLast(ts, limit)

----------------------------------------------------------------------------
(* Orchestrator: processFile and the shrink fallback.                      *)

\* a file that holds a text
TextFile(t) == [kind |-> "text", data |-> t]

\* the messages of the errors an annotation attempt can end with
TIMEOUT_MESSAGE == "timeout"
API_ERROR_MESSAGE == "OpenAI API error 400: bad request"
EMPTY_MESSAGE == "Empty response from OpenAI"
MISMATCH_MESSAGE == "Model modified or dropped source text"
EMOJI_MESSAGE == "Footnote definitions missing required emoji prefix"
MISSING_MESSAGE == "Missing cached chunk"
NO_ERROR == "none"

\* message.toLowerCase() matches /timeout/, or includes the needle
LowerCaseIncludes(message, needle) ==
  CASE needle = "timeout" -> message = TIMEOUT_MESSAGE
    [] needle = "source text" -> message = MISMATCH_MESSAGE
    [] needle = "model modified" -> message = MISMATCH_MESSAGE
    [] OTHER -> FALSE

FALLBACK_ATTEMPT == 2

\* the test of the message without the test of the attempt
shouldFallbackToSubchunksMut(message, attempt) ==
  \/ LowerCaseIncludes(message, "timeout")
  \/ LowerCaseIncludes(message, "source text")
  \/ LowerCaseIncludes(message, "model modified")

shouldFallbackToSubchunks(message, attempt) ==
  IF attempt < FALLBACK_ATTEMPT THEN FALSE
  ELSE LET isTimeout == LowerCaseIncludes(message, "timeout")
           isSourceMismatch ==
             \/ LowerCaseIncludes(message, "source text")
             \/ LowerCaseIncludes(message, "model modified")
       IN isTimeout \/ isSourceMismatch

\* the shrink factors, as <<numerator, denominator>>
SHRINK_FACTORS == <<<<3, 4>>, <<1, 2>>>>

\* the loop of planShrunkSubchunks over the factors: the sub-chunks, and
\* the cache countTokens leaves
\* Math.max(MIN_EFFECTIVE_CHUNK_TOKENS, Math.floor(CHUNK_TOKENS * factor))
ShrunkLimit(limit, factor) ==
  Max(MIN_EFFECTIVE_CHUNK_TOKENS, (limit * factor[1]) \div factor[2])

RECURSIVE PlanFrom(_, _, _, _)
RECURSIVE PlanSplit(_, _, _, _)
PlanFrom(factors, chunkText, limit, cache) ==
  IF factors = <<>> THEN [subs |-> <<>>, cache |-> cache]
  ELSE IF ShrunkLimit(limit, Head(factors)) >= limit
  THEN PlanFrom(Tail(factors), chunkText, limit, cache)
  ELSE PlanSplit(Tail(factors), chunkText, limit,
                 splitIntoTokenChunks(chunkText,
                                      ShrunkLimit(limit, Head(factors)), cache))

\* the test of one split r, and the rest of the loop
PlanSplit(rest, chunkText, limit, r) ==
  IF /\ Len(r.chunks) > 1
     /\ \E k \in 1..Len(r.chunks) : Trim(r.chunks[k]) # <<>>
  THEN [subs |-> r.chunks, cache |-> r.cache]
  ELSE PlanFrom(rest, chunkText, limit, r.cache)

planShrunkSubchunks(chunkText, limit, cache) ==
  PlanFrom(SHRINK_FACTORS, chunkText, limit, cache)

\* the message annotateChunkWithPrompt throws with, by recorded reason
ErrorMessage(status) ==
  CASE status = "empty_response" -> EMPTY_MESSAGE
    [] status = "source_mismatch" -> MISMATCH_MESSAGE
    [] status = "emoji_missing" -> EMOJI_MESSAGE
    [] OTHER -> NO_ERROR

\* annotateChunkWithPrompt with the call it awaits: reply is what
\* callChatWithBackoff returns (a text) or throws (a timeout, an API error)
Thrown(r) ==
  [ok |-> r.status = "accepted", message |-> ErrorMessage(r.status),
   text |-> r.text]

AnnotateOutcome(original, reply) ==
  IF reply.kind = "timeout"
  THEN [ok |-> FALSE, message |-> TIMEOUT_MESSAGE, text |-> <<>>]
  ELSE IF reply.kind = "api_error"
  THEN [ok |-> FALSE, message |-> API_ERROR_MESSAGE, text |-> <<>>]
  ELSE Thrown(annotateChunkWithPrompt(original, reply.text))

\* ensureFootnotesAtEnd, then normalizeFootnotesSafe(sanitized, 1).text
LocalText(annotated) ==
  normalizeFootnotesSafe(ensureFootnotesAtEnd(annotated), 1).text

\* memory.updateFromText(text), and memory.save() if it returned true
SaveIfUpdated(r, f, limit) ==
  [terms |-> r.terms, lower |-> r.lower,
   file |-> IF r.updated THEN ArrayFile(SavePayload(r.terms, limit)) ELSE f,
   saved |-> r.updated]

UpdateAndSave(mem, f, s, limit) ==
  SaveIfUpdated(updateFromText(mem, s, limit), f, limit)

\* the parts joined by a single newline
CombinePartsMut(parts) == normalizeFootnotesSafe(Join(parts, <<NL>>), 1).text

\* the last two lines of annotateShrunkSubchunks
CombineParts(parts) == normalizeFootnotesSafe(Join(parts, <<NL, NL>>), 1).text

MAX_TRIES == 3

\* fs.writeFileSync inside the try block of save(): the file after the call
WriteFile(writable, old, new) == IF writable THEN new ELSE old

\* the error fs.writeFileSync(finalOutputPath, ...) throws
OUTPUT_MESSAGE == "EACCES: permission denied"
OutputError == [chunk |-> 0, message |-> OUTPUT_MESSAGE]

\* no error thrown
NoError == [chunk |-> 0, message |-> NO_ERROR]

\* new Error(`Failed to annotate chunk ${idx}: ${lastErr?.message}`), with
\* the index counted from 0
FailureErrorMut(k, message) == [chunk |-> k - 1, message |-> message]

\* new Error(`Failed to annotate chunk ${idx}: ${lastErr?.message}`)
FailureError(k, message) == [chunk |-> k, message |-> message]

\* the entries of baseCacheDir once processFile has run: the directory of
\* the checkpoints, and the vocabulary-memory file if there is one
BaseDirEntries(f) ==
  {"chunks"} \cup (IF f # ABSENT THEN {"vocab_memory.json"} ELSE {})

\* a cleanup that removes baseCacheDir with what it holds
CleanupAfterFailureMut(cps, f) == <<>>

\* the finally block of orchestrate after processFile has thrown:
\* baseCacheDir is removed only when it is empty; cps are the checkpoints
CleanupAfterFailure(cps, f) == IF BaseDirEntries(f) = {} THEN <<>> ELSE cps

\* new Error(`Missing cached chunk: ${chunkPath}`)
MissingError(k) == [chunk |-> k, message |-> MISSING_MESSAGE]

\* one iteration of the combination loop; st holds combined and nextId
CombineStepMut(st, annotated) ==
  LET sanitized == ensureFootnotesAtEnd(annotated)
      normalized == normalizeFootnotesSafe(sanitized, st.nextId)
  IN [combined |-> Append(st.combined, normalized.text),
      nextId |-> st.nextId]

CombineStep(st, annotated) ==
  LET sanitized == ensureFootnotesAtEnd(annotated)
      normalized == normalizeFootnotesSafe(sanitized, st.nextId)
  IN [combined |-> Append(st.combined, normalized.text),
      nextId |-> normalized.nextId]

RECURSIVE CombineLoop(_, _)
CombineLoop(st, annotated) ==
  IF annotated = <<>> THEN st
  ELSE CombineLoop(CombineStep(st, Head(annotated)), Tail(annotated))

----------------------------------------------------------------------------
(* The model's response to the annotation prompt for one chunk, as the     *)
(* endpoint may return it: the chunk with inline markers inserted, with    *)
(* definition lines appended after the body, with an original word left    *)
(* out, or with text of its own added before or after the body.            *)

\* the inline marker [^n]
MarkerText(n) == <<"[", "^">> \o StringOf(n) \o <<"]">>

RECURSIVE MarkerRun(_, _)
MarkerRun(n, count) ==
  IF count = 0 THEN <<>> ELSE MarkerText(n) \o MarkerRun(n + 1, count - 1)

\* the whitespace-delimited words of s, as [from, to] position pairs
RECURSIVE WordsFrom(_, _)
WordsFrom(s, i) ==
  IF i > Len(s) THEN <<>>
  ELSE IF s[i] \in WS THEN WordsFrom(s, i + 1)
  ELSE LET e == CHOOSE j \in i..Len(s) :
                  /\ \A k \in i..j : s[k] \notin WS
                  /\ (j = Len(s) \/ s[j + 1] \in WS)
       IN <<[from |-> i, to |-> e]>> \o WordsFrom(s, e + 1)

WordsOf(s) == WordsFrom(s, 1)

\* the body: before the character at position g + 1 come mk[g + 1] markers,
\* numbered in text order; the characters of the word left out are skipped
RECURSIVE ResponseBodyFrom(_, _, _, _, _)
ResponseBodyFrom(s, mk, del, g, n) ==
  IF g > Len(s) THEN <<>>
  ELSE MarkerRun(n, mk[g + 1])
       \o (IF g < Len(s)
              /\ ~(del # 0 /\ WordsOf(s)[del].from <= g + 1
                            /\ g + 1 <= WordsOf(s)[del].to)
           THEN <<s[g + 1]>> ELSE <<>>)
       \o ResponseBodyFrom(s, mk, del, g + 1, n + mk[g + 1])

\* the content of a definition line, by kind
DefinitionKinds == {"tagged", "two_tags", "untagged", "empty"}
DefinitionContent(kind) ==
  CASE kind = "tagged" -> <<SP, EMOJI, SP, "a">>
    [] kind = "two_tags" -> <<SP, EMOJI, EMOJI, SP, "a">>
    [] kind = "untagged" -> <<SP, "a">>
    [] kind = "empty" -> <<>>

DefinitionLines(kinds) ==
  [j \in 1..Len(kinds) |->
     <<"[", "^">> \o StringOf(j) \o <<"]", ":">> \o DefinitionContent(kinds[j])]

OWN_TEXT == <<"x">>

ResponseText(s, mk, kinds, del, added) ==
  (IF "before" \in added THEN OWN_TEXT \o <<SP>> ELSE <<>>)
  \o ResponseBodyFrom(s, mk, del, 0, 1)
  \o (IF "after" \in added THEN <<SP>> \o OWN_TEXT ELSE <<>>)
  \o (IF kinds = <<>> THEN <<>>
      ELSE <<NL, NL>> \o Join(DefinitionLines(kinds), <<NL>>))

RECURSIVE SumSeq(_)
SumSeq(q) == IF q = <<>> THEN 0 ELSE Head(q) + SumSeq(Tail(q))

----------------------------------------------------------------------------
(* StreamingCaller: postResponsesStream.  The body of the response is a    *)
(* sequence of symbols: the characters NL, CR and SP, the prefix `data:`,  *)
(* and one symbol for each payload that a record can carry.                *)

DATA_PREFIX == "data:"
DONE_SENTINEL == "[DONE]"
\* a line that is no `data:` line, such as `: keepalive`
COMMENT == ": keepalive"
\* payloads: JSON texts of events, and a text that JSON.parse rejects
DELTA_A == "{type:response.output_text.delta,delta:a}"
DELTA_B == "{type:response.output_text.delta,delta:b}"
FULL_TEXT_C == "{type:response.output_text,content:c}"
FULL_TEXT_D == "{type:response.output_text,content:[{type:output_text,text:d}]}"
OTHER_EVENT == "{type:response.created}"
ERROR_EVENT == "{type:response.error,error:{message:overloaded}}"
JSON_NULL == "null"
BROKEN_JSON == "{type:"

\* JSON.parse(dataStr): the event, or that it threw
JsonParse(dataStr) ==
  IF Len(dataStr) # 1 THEN [parsed |-> FALSE]
  ELSE IF dataStr[1] = DELTA_A
  THEN [parsed |-> TRUE, null |-> FALSE, type |-> "delta", text |-> <<"a">>]
  ELSE IF dataStr[1] = DELTA_B
  THEN [parsed |-> TRUE, null |-> FALSE, type |-> "delta", text |-> <<"b">>]
  ELSE IF dataStr[1] = FULL_TEXT_C
  THEN [parsed |-> TRUE, null |-> FALSE, type |-> "text", text |-> <<"c">>]
  ELSE IF dataStr[1] = FULL_TEXT_D
  THEN [parsed |-> TRUE, null |-> FALSE, type |-> "text", text |-> <<"d">>]
  ELSE IF dataStr[1] = OTHER_EVENT
  THEN [parsed |-> TRUE, null |-> FALSE, type |-> "other", text |-> <<>>]
  ELSE IF dataStr[1] = ERROR_EVENT
  THEN [parsed |-> TRUE, null |-> FALSE, type |-> "error", text |-> <<>>]
  ELSE IF dataStr[1] = JSON_NULL
  THEN [parsed |-> TRUE, null |-> TRUE, type |-> "none", text |-> <<>>]
  ELSE [parsed |-> FALSE]

\* the position of the first line feed of s, or 0
FirstLineFeed(s) == FirstIn({i \in 1..Len(s) : s[i] = NL})

\* the match of /\r?\n/ that ends at the line feed at i starts here
BreakStart(s, i) == IF i > 1 /\ s[i - 1] = CR THEN i - 1 ELSE i

\* buffer.split(/\r?\n/)
RECURSIVE SplitLines(_)
SplitLines(s) ==
  LET i == FirstLineFeed(s) IN
  IF i = 0 THEN <<s>>
  ELSE <<SubSeq(s, 1, BreakStart(s, i) - 1)>> \o SplitLines(From(s, i + 1))

\* what the body of `for (const rawLine of lines)` does at one line: it
\* goes on with `collected`, returns it, or throws
Continue(acc) == [kind |-> "continue", text |-> acc, status |-> 0]
StreamReturned(acc) == [kind |-> "returned", text |-> acc, status |-> 0]
StreamThrew(kind) == [kind |-> kind, text |-> <<>>, status |-> 0]
\* the error of a response that is not ok, with err.status
ApiError(status) == [kind |-> "api_error", text |-> <<>>, status |-> status]

\* the body of the loop from `const eventType = event.type || event.object`
HandleEvent(event, acc) ==
  IF event.null THEN StreamThrew("type_error")
  ELSE IF event.type \in {"delta", "text"} THEN Continue(acc \o event.text)
  ELSE IF event.type = "error" THEN StreamThrew("response_error")
  ELSE Continue(acc)

ProcessLine(rawLine, acc) ==
  LET line == Trim(rawLine) IN
  IF line = <<>> \/ Head(line) # DATA_PREFIX THEN Continue(acc)
  ELSE LET dataStr == Trim(Tail(line)) IN
       IF dataStr = <<DONE_SENTINEL>> THEN StreamReturned(acc)
       ELSE LET event == JsonParse(dataStr) IN
            IF ~event.parsed THEN Continue(acc)
            ELSE HandleEvent(event, acc)

\* for (const rawLine of lines) { ... }
RECURSIVE ProcessLines(_, _)
ProcessLines(lines, acc) ==
  IF lines = <<>> THEN Continue(acc)
  ELSE LET r == ProcessLine(Head(lines), acc) IN
       IF r.kind = "continue" THEN ProcessLines(Tail(lines), r.text) ELSE r

\* lines.pop() leaves these
AllButLast(lines) == SubSeq(lines, 1, Len(lines) - 1)

----------------------------------------------------------------------------
(* RetryScheduler: callChatWithBackoff.  What an invocation of             *)
(* postResponsesStream ended with is a record: kind "ok" or "error", the   *)
(* `status` of the error (0: it carries none), its `name`, and whether its *)
(* message matches /timeout/i.  Durations are in microseconds.             *)

RETRYABLE_STATUSES == {429, 502, 503, 504}

\* error.name === 'AbortError' || /timeout/i.test(error.message ?? '')
isAbort(error) == error.name = "AbortError" \/ error.timeout

\* an error without a status is retried whatever it is
shouldRetryMut(error) ==
  IF error.status # 0 THEN error.status \in RETRYABLE_STATUSES ELSE TRUE

\* shouldRetry of callChatWithBackoff
shouldRetry(error) ==
  IF error.status # 0 THEN error.status \in RETRYABLE_STATUSES
  ELSE isAbort(error)

\* let delaySeconds = 1.5
INITIAL_DELAY == 1500000
\* the bound of Math.min(delaySeconds * 1.7, 20)
DELAY_CAP == 20000000

\* the delay grows without the cap
NextDelayMut(d) == (d * 17) \div 10

\* delaySeconds = Math.min(delaySeconds * 1.7, 20)
NextDelay(d) == Min((d * 17) \div 10, DELAY_CAP)

\* jitter = Math.random() * 0.4 + 0.2, r being Math.random() in millionths
Jitter(r) == (r * 4) \div 10 + 200000

\* sleepFor = delaySeconds + jitter
SleepFor(d, r) == d + Jitter(r)

\* what callChatWithBackoff returned or threw: the text of invocation n,
\* the error object of invocation n, or the error of the last line
Returned(n) == [kind |-> "returned", invocation |-> n]
AttemptError(n) == [kind |-> "attempt_error", invocation |-> n]
Exhausted == [kind |-> "exhausted", invocation |-> 0]

----------------------------------------------------------------------------
(* Bounded inputs.                                                         *)

RECURSIVE Flatten(_)
Flatten(ps) == IF ps = <<>> THEN <<>> ELSE Head(ps) \o Flatten(Tail(ps))

PieceSeqs(pieces, n) == UNION {[1..k -> pieces] : k \in 0..n}

MaxPieces == 5
ManuscriptPieces ==
  {<<"a">>, <<"b", SP, "c", ".", SP, "d">>, <<SP>>, <<NL>>, <<NL, NL>>}
TokenBudgets == 1..4

MaxFootnotePieces == 4
FootnotePieces ==
  {<<"a">>, <<NL>>, <<"[", "^", "1", "]">>, <<"[", "^", "2", "]">>,
   <<"[", "^", "1", "]", ":">>, <<"[", "^", "2", "]", ":">>,
   <<"[", "^", "1", "0", "]">>}
StartIds == {1, 9}
NoResult == [text |-> <<>>, nextId |-> 0]

MaxMarkers == 2
MaxDefinitions == 1
ChunkTexts ==
  {<<"a", SP, "b">>, <<"a", NL, "b">>, <<"a", NL, NL, "b", SP, "a">>,
   <<"a", DASH, "b">>, <<"a", SP, DASH, SP, "b">>, <<"a", ":", SP, "b">>,
   <<"a", SP, "a", SP, "b">>, <<"b">>,
   <<"a">> \o MarkerText(1), <<"a", NL, ":", "b">>}
NoOutcome == [status |-> "none", text |-> <<>>]

MaxFileEntries == 2
MaxNewTerms == 2
StoreLimits == 0..2
TermTexts == {<<"a">>, <<"A">>, <<SP, "b">>, <<SP>>}
DefinitionLine(n, term) ==
  <<"[", "^">> \o StringOf(n) \o <<"]", ":", SP, EMOJI, SP>> \o term
AnnotatedTexts ==
  {<<"a", NL, NL>> \o DefinitionLine(1, <<"a", ":", SP, "x">>),
   DefinitionLine(1, <<"A", SP, DASH, SP, "x">>) \o <<NL>>
     \o DefinitionLine(2, <<"b", DASH, "x", ":", "y">>),
   DefinitionLine(1, <<"B", "a">>) \o <<NL, "[", "^", "2", "]", ":", SP>>,
   <<"a", SP, "b">>}

\* the runs of processFile, as <<manuscript, CHUNK_TOKENS>>: two chunks of
\* one paragraph; a chunk of two paragraphs and a chunk of one
Jobs ==
  {<<<<"b", NL, NL, "a", SP, "b">>, 2>>,
   <<<<"b", NL, NL, "b", NL, NL, "b">>, 3>>}
Runs == {1, 2}
\* CHUNK_TOKENS of a later run, when it is not that of the first: a budget
\* under which the whole manuscript is one chunk
RerunBudgets == {4}
ProcessStoreLimits == {1}

\* no marker before any character
NoMarks(c) == [g \in 1..(Len(c) + 1) |-> 0]
\* one marker after the first character, k - 1 after the last
SpreadMarks(c, k) ==
  [g \in 1..(Len(c) + 1) |->
     (IF g = Min(2, Len(c) + 1) THEN 1 ELSE 0)
     + (IF g = Len(c) + 1 THEN k - 1 ELSE 0)]
TaggedLines(n) == [j \in 1..n |-> "tagged"]

\* the numbers of markers, each with its definition, of an annotated reply
ReplyMarkerCounts == {1, 2}

\* nothing; the chunk as it is; the chunk with k markers and their
\* definitions; a marker without definition; a definition without emoji;
\* a word left out
ReplyTexts(c) ==
  {<<>>, c}
    \cup {ResponseText(c, SpreadMarks(c, k), TaggedLines(k), 0, {}) :
            k \in ReplyMarkerCounts}
    \cup {ResponseText(c, SpreadMarks(c, 1), <<>>, 0, {})}
    \cup {ResponseText(c, SpreadMarks(c, 1), <<"untagged">>, 0, {}),
          ResponseText(c, NoMarks(c), <<>>, 1, {})}
Replies(c) ==
  {[kind |-> "timeout", text |-> <<>>], [kind |-> "api_error", text |-> <<>>]}
    \cup {[kind |-> "text", text |-> t] : t \in ReplyTexts(c)}

\* no model call was made by the step just taken
NoCall == [idx |-> 0, text |-> <<>>, reply |-> [kind |-> "none", text |-> <<>>]]

\* no invocation has ended yet, nothing was returned or thrown
NoInvocation ==
  [kind |-> "none", status |-> 0, name |-> "none", timeout |-> FALSE]
NothingRaised == [kind |-> "none", invocation |-> 0]
NoStreamOutcome == [kind |-> "none", text |-> <<>>, status |-> 0]

\* the variables of callChatWithBackoff while no call is modelled
IdleBackoff ==
  /\ maxRetries = 0
  /\ attemptNo = 0
  /\ delaySeconds = 0
  /\ invocations = 0
  /\ lastError = NoInvocation
  /\ sleeps = <<>>
  /\ raised = NothingRaised

\* the variables of postResponsesStream while no call is modelled
IdleStream ==
  /\ responseBody = <<>>
  /\ stream = <<>>
  /\ buffer = <<>>
  /\ collected = <<>>
  /\ timerArmed = FALSE
  /\ streamOutcome = NoStreamOutcome

\* the counters of countTokens while its calls are not counted
IdleCount ==
  /\ counted = <<>>
  /\ countRepeats = 0
  /\ cacheSize = Number(TOKEN_COUNT_CACHE_SIZE)
  /\ countModel = <<>>
  /\ tokenCount = 0

\* the paths while no cache directory is derived
IdlePaths ==
  /\ inputPaths = <<>>
  /\ baseDirs = <<>>

IdleService == IdleBackoff /\ IdleStream /\ IdleCount /\ IdlePaths

\* the variables of processFile while no run is modelled
IdleRun ==
  /\ call = NoCall
  /\ thrown = NoError
  /\ run = 0
  /\ resume = FALSE
  /\ preserveChunks = FALSE
  /\ idx = 0
  /\ tries = 0
  /\ lastErr = NO_ERROR
  /\ checkpoints = <<>>
  /\ subchunks = <<>>
  /\ subIdx = 0
  /\ annotatedParts = <<>>
  /\ annotatedChunks = <<>>
  /\ combined = <<>>
  /\ combineNextId = 0
  /\ output = ABSENT
  /\ memoryWritable = TRUE
  /\ outputWritable = TRUE

IdleProcess == IdleService /\ IdleRun

\* the variables of the annotator while a service is modelled on its own
IdleAnnotator ==
  /\ IdleRun
  /\ maxTokens = 0
  /\ chunks = <<>>
  /\ chunkParas = <<>>
  /\ chunkCosts = <<>>
  /\ start = 1
  /\ renum = NoResult
  /\ renumAgain = NoResult
  /\ chunk = <<>>
  /\ marks = <<>>
  /\ defs = <<>>
  /\ deleted = 0
  /\ extra = {}
  /\ content = <<>>
  /\ outcome = NoOutcome
  /\ storeLimit = 0
  /\ terms = <<>>
  /\ lower = {}
  /\ file = ABSENT
  /\ written = ABSENT


----------------------------------------------------------------------------
(* Specification of the Chunker: split one manuscript under one budget.    *)

InitChunker ==
  /\ IdleProcess
  /\ pc = "split"
  /\ \E ps \in PieceSeqs(ManuscriptPieces, MaxPieces) : text = Flatten(ps)
  /\ maxTokens \in TokenBudgets
  /\ chunks = <<>>
  /\ chunkParas = <<>>
  /\ chunkCosts = <<>>
  /\ tokenCountCache = <<>>
  /\ start = 1
  /\ renum = NoResult
  /\ renumAgain = NoResult
  /\ chunk = <<>>
  /\ marks = <<>>
  /\ defs = <<>>
  /\ deleted = 0
  /\ extra = {}
  /\ content = <<>>
  /\ outcome = NoOutcome
  /\ storeLimit = 0
  /\ terms = <<>>
  /\ lower = {}
  /\ file = ABSENT
  /\ written = ABSENT

Split ==
  /\ pc = "split"
  /\ \E r \in {splitIntoTokenChunks(text, maxTokens, tokenCountCache)} :
       /\ chunks' = r.chunks
       /\ chunkParas' = r.paras
       /\ chunkCosts' = r.costs
       /\ tokenCountCache' = r.cache
  /\ pc' = "split_done"
  /\ UNCHANGED <<text, maxTokens, renumVars, validatorVars, vocabVars,
                 processVars, serviceVars>>

NextChunker == Split

SpecChunker == InitChunker /\ [][NextChunker]_vars

----------------------------------------------------------------------------
(* Specification of the FootnoteRenumberer: renumber one text from one     *)
(* start, then renumber the result again, from the same start or from the  *)
(* nextId the first call returned.                                         *)

InitRenumber ==
  /\ IdleProcess
  /\ pc = "renumber"
  /\ \E ps \in PieceSeqs(FootnotePieces, MaxFootnotePieces) : text = Flatten(ps)
  /\ start \in StartIds
  /\ renum = NoResult
  /\ renumAgain = NoResult
  /\ maxTokens = 0
  /\ chunks = <<>>
  /\ chunkParas = <<>>
  /\ chunkCosts = <<>>
  /\ tokenCountCache = <<>>
  /\ chunk = <<>>
  /\ marks = <<>>
  /\ defs = <<>>
  /\ deleted = 0
  /\ extra = {}
  /\ content = <<>>
  /\ outcome = NoOutcome
  /\ storeLimit = 0
  /\ terms = <<>>
  /\ lower = {}
  /\ file = ABSENT
  /\ written = ABSENT

Renumber ==
  /\ pc = "renumber"
  /\ renum' = normalizeFootnotesSafe(text, start)
  /\ pc' = "renumbered"
  /\ UNCHANGED <<text, start, renumAgain, chunkerVars, validatorVars, vocabVars,
                 processVars, serviceVars>>

RenumberSameStart ==
  /\ pc = "renumbered"
  /\ renumAgain' = normalizeFootnotesSafe(renum.text, start)
  /\ pc' = "again_same_start"
  /\ UNCHANGED <<text, start, renum, chunkerVars, validatorVars, vocabVars,
                 processVars, serviceVars>>

RenumberFromNextId ==
  /\ pc = "renumbered"
  /\ renumAgain' = normalizeFootnotesSafe(renum.text, renum.nextId)
  /\ pc' = "again_from_next"
  /\ UNCHANGED <<text, start, renum, chunkerVars, validatorVars, vocabVars,
                 processVars, serviceVars>>

NextRenumber == Renumber \/ RenumberSameStart \/ RenumberFromNextId

SpecRenumber == InitRenumber /\ [][NextRenumber]_vars

----------------------------------------------------------------------------
(* Specification of the Validator: the endpoint composes a response to one *)
(* chunk, and annotateChunkWithPrompt sanitizes and validates it.          *)

InitValidator ==
  /\ IdleProcess
  /\ pc = "respond"
  /\ chunk \in ChunkTexts
  /\ marks = [g \in 1..(Len(chunk) + 1) |-> 0]
  /\ defs = <<>>
  /\ deleted = 0
  /\ extra = {}
  /\ content = chunk
  /\ outcome = NoOutcome
  /\ text = <<>>
  /\ maxTokens = 0
  /\ chunks = <<>>
  /\ chunkParas = <<>>
  /\ chunkCosts = <<>>
  /\ tokenCountCache = <<>>
  /\ start = 1
  /\ renum = NoResult
  /\ renumAgain = NoResult
  /\ storeLimit = 0
  /\ terms = <<>>
  /\ lower = {}
  /\ file = ABSENT
  /\ written = ABSENT

\* the response gains an inline marker before the character at position g
InsertMarker(g) ==
  /\ pc = "respond"
  /\ SumSeq(marks) < MaxMarkers
  /\ marks' = [marks EXCEPT ![g] = @ + 1]
  /\ content' = ResponseText(chunk, marks', defs, deleted, extra)
  /\ UNCHANGED <<pc, text, chunk, defs, deleted, extra, outcome,
                 chunkerVars, renumVars, vocabVars,
                 processVars, serviceVars>>

\* the response gains a definition line after the body
AppendDefinition(kind) ==
  /\ pc = "respond"
  /\ Len(defs) < MaxDefinitions
  /\ defs' = Append(defs, kind)
  /\ content' = ResponseText(chunk, marks, defs', deleted, extra)
  /\ UNCHANGED <<pc, text, chunk, marks, deleted, extra, outcome,
                 chunkerVars, renumVars, vocabVars,
                 processVars, serviceVars>>

\* the response leaves out the k-th word of the chunk
DeleteWord(k) ==
  /\ pc = "respond"
  /\ deleted = 0
  /\ extra = {}
  /\ deleted' = k
  /\ content' = ResponseText(chunk, marks, defs, deleted', extra)
  /\ UNCHANGED <<pc, text, chunk, marks, defs, extra, outcome,
                 chunkerVars, renumVars, vocabVars,
                 processVars, serviceVars>>

\* the response gains text of the model's own before or after the body
AddText(where) ==
  /\ pc = "respond"
  /\ deleted = 0
  /\ where \notin extra
  /\ extra' = extra \cup {where}
  /\ content' = ResponseText(chunk, marks, defs, deleted, extra')
  /\ UNCHANGED <<pc, text, chunk, marks, defs, deleted, outcome,
                 chunkerVars, renumVars, vocabVars,
                 processVars, serviceVars>>

\* annotateChunkWithPrompt on the response as it stands
Validate ==
  /\ pc = "respond"
  /\ outcome' = annotateChunkWithPrompt(chunk, content)
  /\ pc' = "validated"
  /\ UNCHANGED <<text, chunk, responseVars, chunkerVars, renumVars, vocabVars,
                 processVars, serviceVars>>

NextValidator ==
  \/ \E g \in 1..(Len(chunk) + 1) : InsertMarker(g)
  \/ \E kind \in DefinitionKinds : AppendDefinition(kind)
  \/ \E k \in 1..Len(WordsOf(chunk)) : DeleteWord(k)
  \/ \E where \in {"before", "after"} : AddText(where)
  \/ Validate

SpecValidator == InitValidator /\ [][NextValidator]_vars

----------------------------------------------------------------------------
(* Specification of VocabMemory: one object, constructed over a file that  *)
(* an earlier run may have left, then updated, saved and deleted.          *)

InitVocab ==
  /\ IdleProcess
  /\ pc = "construct"
  /\ storeLimit \in StoreLimits
  /\ file \in {ABSENT, CORRUPT}
       \cup {ArrayFile(data) :
               data \in PieceSeqs(TermTexts \cup {NOT_A_STRING}, MaxFileEntries)}
  /\ terms = <<>>
  /\ lower = {}
  /\ written = ABSENT
  /\ text = <<>>
  /\ maxTokens = 0
  /\ chunks = <<>>
  /\ chunkParas = <<>>
  /\ chunkCosts = <<>>
  /\ tokenCountCache = <<>>
  /\ start = 1
  /\ renum = NoResult
  /\ renumAgain = NoResult
  /\ chunk = <<>>
  /\ marks = <<>>
  /\ defs = <<>>
  /\ deleted = 0
  /\ extra = {}
  /\ content = <<>>
  /\ outcome = NoOutcome

\* new VocabMemory(filePath, storeLimit): the constructor calls load()
Construct ==
  /\ pc = "construct"
  /\ \E r \in {load(file, storeLimit)} :
       terms' = r.terms /\ lower' = r.lower
  /\ pc' = "ready"
  /\ UNCHANGED <<text, storeLimit, file, written,
                 chunkerVars, renumVars, validatorVars,
                 processVars, serviceVars>>

AddTerms(new) ==
  /\ pc = "ready"
  /\ \E r \in {addTerms([terms |-> terms, lower |-> lower], new, storeLimit)} :
       terms' = r.terms /\ lower' = r.lower
  /\ UNCHANGED <<pc, text, storeLimit, file, written,
                 chunkerVars, renumVars, validatorVars,
                 processVars, serviceVars>>

UpdateFromText(s) ==
  /\ pc = "ready"
  /\ \E r \in {updateFromText([terms |-> terms, lower |-> lower], s, storeLimit)} :
       terms' = r.terms /\ lower' = r.lower
  /\ UNCHANGED <<pc, text, storeLimit, file, written,
                 chunkerVars, renumVars, validatorVars,
                 processVars, serviceVars>>

Save ==
  /\ pc = "ready"
  /\ file' = ArrayFile(SavePayload(terms, storeLimit))
  /\ written' = ArrayFile(SavePayload(terms, storeLimit))
  /\ UNCHANGED <<pc, text, storeLimit, terms, lower,
                 chunkerVars, renumVars, validatorVars,
                 processVars, serviceVars>>

DeleteFile ==
  /\ pc = "ready"
  /\ file # ABSENT
  /\ file' = ABSENT
  /\ UNCHANGED <<pc, text, storeLimit, terms, lower, written,
                 chunkerVars, renumVars, validatorVars,
                 processVars, serviceVars>>

NextVocab ==
  \/ Construct
  \/ \E new \in PieceSeqs(TermTexts, MaxNewTerms) : AddTerms(new)
  \/ \E s \in AnnotatedTexts : UpdateFromText(s)
  \/ Save
  \/ DeleteFile

SpecVocab == InitVocab /\ [][NextVocab]_vars

----------------------------------------------------------------------------
(* Specification of processFile: a run over one manuscript, chunk by       *)
(* chunk, each step taken at a reply of the endpoint; the run may be       *)
(* interrupted and started again over the files the first run left.        *)

InitProcessWith(jobs, writable) ==
  /\ pc = "start"
  /\ IdleService
  /\ \E w \in writable : memoryWritable = w[1] /\ outputWritable = w[2]
  /\ call = NoCall
  /\ thrown = NoError
  /\ \E job \in jobs : text = job[1] /\ maxTokens = job[2]
  /\ storeLimit \in ProcessStoreLimits
  /\ preserveChunks = FALSE
  /\ run = 1
  /\ resume = TRUE
  /\ idx = 0
  /\ tries = 0
  /\ lastErr = NO_ERROR
  /\ checkpoints = <<>>
  /\ subchunks = <<>>
  /\ subIdx = 0
  /\ annotatedParts = <<>>
  /\ annotatedChunks = <<>>
  /\ combined = <<>>
  /\ combineNextId = 0
  /\ output = ABSENT
  /\ chunks = <<>>
  /\ chunkParas = <<>>
  /\ chunkCosts = <<>>
  /\ tokenCountCache = <<>>
  /\ terms = <<>>
  /\ lower = {}
  /\ file = ABSENT
  /\ written = ABSENT
  /\ start = 1
  /\ renum = NoResult
  /\ renumAgain = NoResult
  /\ chunk = <<>>
  /\ marks = <<>>
  /\ defs = <<>>
  /\ deleted = 0
  /\ extra = {}
  /\ content = <<>>
  /\ outcome = NoOutcome

\* the runs in which every file can be written
InitProcess == InitProcessWith(Jobs, {<<TRUE, TRUE>>})

\* processFile up to the loop over the chunks: the memory is loaded and
\* the manuscript is split
Start ==
  /\ pc = "start"
  /\ call' = NoCall
  /\ UNCHANGED thrown
  /\ \E m \in {load(file, storeLimit)} :
       terms' = m.terms /\ lower' = m.lower
  /\ \E r \in {splitIntoTokenChunks(text, maxTokens, tokenCountCache)} :
       /\ chunks' = r.chunks
       /\ chunkParas' = r.paras
       /\ chunkCosts' = r.costs
       /\ tokenCountCache' = r.cache
  /\ idx' = 1
  /\ tries' = 0
  /\ pc' = "loop"
  /\ UNCHANGED <<text, maxTokens, storeLimit, file, written, run, resume,
                 preserveChunks, lastErr, checkpoints, subchunks, subIdx,
                 annotatedParts, annotatedChunks, combined, combineNextId,
                 output, renumVars, validatorVars,
                 serviceVars, memoryWritable,
                 outputWritable>>

\* the loop skips a chunk
NextChunkMut(i) == i + 2

\* the loop stays at its chunk
NextChunkStay(i) == i

\* `i += 1` of the loop over the chunks, idx being i + 1
NextChunk(i) == i + 1

\* the test of the cache hit without the option `resume`
IsCacheHitMut ==
  /\ idx \in DOMAIN checkpoints
  /\ checkpoints[idx] # <<>>

\* the test of the cache hit at the head of the loop
IsCacheHit ==
  /\ resume
  /\ idx \in DOMAIN checkpoints
  /\ checkpoints[idx] # <<>>

\* the loop reaches a chunk whose checkpoint exists: skip it
CacheHit ==
  /\ pc = "loop"
  /\ idx <= Len(chunks)
  /\ tries = 0
  /\ IsCacheHit
  /\ call' = NoCall
  /\ UNCHANGED thrown
  /\ \E m \in {UpdateAndSave([terms |-> terms, lower |-> lower], file,
                             checkpoints[idx], storeLimit)} :
       /\ terms' = m.terms
       /\ lower' = m.lower
       /\ file' = WriteFile(memoryWritable, file, m.file)
       /\ written' = IF m.saved
                     THEN WriteFile(memoryWritable, written, m.file)
                     ELSE written
  /\ idx' = NextChunk(idx)
  /\ UNCHANGED <<pc, text, storeLimit, chunkerVars, run, resume,
                 preserveChunks, tries, lastErr, checkpoints, subchunks,
                 subIdx, annotatedParts, annotatedChunks, combined,
                 combineNextId, output, renumVars, validatorVars,
                 serviceVars, memoryWritable,
                 outputWritable>>

\* one pass of the while loop: the attempt, and its catch block up to the
\* call of annotateShrunkSubchunks
Attempt(reply) ==
  /\ pc = "loop"
  /\ idx <= Len(chunks)
  /\ tries > 0 \/ ~IsCacheHit
  /\ tries < MAX_TRIES
  /\ call' = [idx |-> idx, text |-> chunks[idx], reply |-> reply]
  /\ \E o \in {AnnotateOutcome(chunks[idx], reply)} :
       IF o.ok
       THEN /\ \E local \in {LocalText(o.text)} :
                 \E m \in {UpdateAndSave([terms |-> terms, lower |-> lower],
                                          file, local, storeLimit)} :
                 /\ checkpoints' = (idx :> local) @@ checkpoints
                 /\ terms' = m.terms
                 /\ lower' = m.lower
                 /\ file' = WriteFile(memoryWritable, file, m.file)
                 /\ written' = IF m.saved
                               THEN WriteFile(memoryWritable, written, m.file)
                               ELSE written
            /\ idx' = NextChunk(idx)
            /\ tries' = 0
            /\ lastErr' = NO_ERROR
            /\ pc' = "loop"
            /\ UNCHANGED <<tokenCountCache, subchunks, subIdx, thrown>>
       ELSE /\ lastErr' = o.message
            /\ tries' = tries + 1
            /\ \E plan \in {IF shouldFallbackToSubchunks(o.message, tries + 1)
                            THEN planShrunkSubchunks(chunks[idx], maxTokens,
                                                     tokenCountCache)
                            ELSE [subs |-> <<>>, cache |-> tokenCountCache]} :
                 /\ tokenCountCache' = plan.cache
                 /\ subchunks' = plan.subs
                 /\ subIdx' = IF plan.subs # <<>> THEN 1 ELSE 0
                 /\ pc' = IF plan.subs # <<>> THEN "fallback"
                          ELSE IF tries + 1 < MAX_TRIES THEN "loop"
                          ELSE "failed"
                 /\ thrown' = IF plan.subs = <<>> /\ tries + 1 >= MAX_TRIES
                              THEN FailureError(idx, o.message) ELSE thrown
                 /\ checkpoints' =
                      IF plan.subs = <<>> /\ tries + 1 >= MAX_TRIES
                      THEN CleanupAfterFailure(checkpoints, file)
                      ELSE checkpoints
            /\ UNCHANGED <<terms, lower, file, written, idx>>
  /\ UNCHANGED <<text, maxTokens, chunks, chunkParas, chunkCosts, storeLimit,
                 run, resume, preserveChunks, annotatedParts, annotatedChunks,
                 combined, combineNextId, output, renumVars, validatorVars,
                 serviceVars, memoryWritable,
                 outputWritable>>

\* one pass of the loop of annotateShrunkSubchunks and, after the last
\* sub-chunk or a failure, the rest of the catch block of processFile
SubAttempt(reply) ==
  /\ pc = "fallback"
  /\ call' = [idx |-> idx, text |-> subchunks[subIdx], reply |-> reply]
  /\ \E o \in {AnnotateOutcome(subchunks[subIdx], reply)} :
       IF o.ok
       THEN \E local \in {LocalText(o.text)} :
            /\ \E m \in {UpdateAndSave([terms |-> terms, lower |-> lower],
                                       file, local, storeLimit)} :
                 /\ terms' = m.terms
                 /\ lower' = m.lower
                 /\ file' = WriteFile(memoryWritable, file, m.file)
                 /\ written' = IF m.saved
                               THEN WriteFile(memoryWritable, written, m.file)
                               ELSE written
            /\ IF subIdx < Len(subchunks)
               THEN /\ annotatedParts' = Append(annotatedParts, local)
                    /\ subIdx' = subIdx + 1
                    /\ UNCHANGED <<pc, idx, tries, lastErr, checkpoints,
                                   subchunks, thrown>>
               ELSE /\ checkpoints' =
                         (idx :> CombineParts(Append(annotatedParts, local)))
                           @@ checkpoints
                    /\ annotatedParts' = <<>>
                    /\ subchunks' = <<>>
                    /\ subIdx' = 0
                    /\ idx' = NextChunk(idx)
                    /\ tries' = 0
                    /\ lastErr' = NO_ERROR
                    /\ pc' = "loop"
                    /\ UNCHANGED thrown
       ELSE /\ lastErr' = o.message
            /\ annotatedParts' = <<>>
            /\ subchunks' = <<>>
            /\ subIdx' = 0
            /\ pc' = IF tries < MAX_TRIES THEN "loop" ELSE "failed"
            /\ thrown' = IF tries < MAX_TRIES THEN thrown
                         ELSE FailureError(idx, o.message)
            /\ checkpoints' = IF tries < MAX_TRIES THEN checkpoints
                              ELSE CleanupAfterFailure(checkpoints, file)
            /\ UNCHANGED <<idx, tries, terms, lower, file, written>>
  /\ UNCHANGED <<text, storeLimit, chunkerVars, run, resume, preserveChunks,
                 annotatedChunks, combined, combineNextId, output,
                 renumVars, validatorVars,
                 serviceVars, memoryWritable,
                 outputWritable>>

\* the chunks are removed whatever was asked
shouldRemoveChunksMut(keep) == TRUE

\* shouldRemoveChunks of processFile, keep being KEEP_CHUNKS || preserveChunks
shouldRemoveChunks(keep) == ~keep

\* after the loop: the checkpoints are read, combined and renumbered, the
\* memory is saved and deleted, the output is written, cacheDir is removed
\* unless the chunks are to be kept (the option is read here only, so it
\* is drawn here)
Combine ==
  /\ pc = "loop"
  /\ idx > Len(chunks)
  /\ call' = NoCall
  /\ IF \E i \in 1..Len(chunks) : i \notin DOMAIN checkpoints
     THEN /\ thrown' = MissingError(FirstIn({i \in 1..Len(chunks) :
                                          i \notin DOMAIN checkpoints}))
          /\ pc' = "failed"
          /\ UNCHANGED <<annotatedChunks, combined, combineNextId, output,
                         file, written, checkpoints, preserveChunks, lastErr>>
     ELSE /\ annotatedChunks' = [i \in 1..Len(chunks) |-> checkpoints[i]]
          /\ written' = WriteFile(memoryWritable, written,
                                 ArrayFile(SavePayload(terms, storeLimit)))
          /\ file' = ABSENT
          /\ \E st \in {CombineLoop([combined |-> <<>>, nextId |-> 1],
                                    annotatedChunks')} :
               /\ combined' = st.combined
               /\ combineNextId' = st.nextId
               /\ IF outputWritable
                  THEN /\ output' = TextFile(Join(st.combined, <<NL, NL>>))
                       /\ preserveChunks' \in BOOLEAN
                       /\ checkpoints' = IF shouldRemoveChunks(preserveChunks')
                                         THEN <<>> ELSE checkpoints
                       /\ pc' = "done"
                       /\ UNCHANGED thrown
                  ELSE /\ thrown' = OutputError
                       /\ pc' = "failed"
                       /\ UNCHANGED <<output, preserveChunks, checkpoints>>
          /\ UNCHANGED lastErr
  /\ UNCHANGED <<text, storeLimit, terms, lower, chunkerVars, run, resume,
                 idx, tries, subchunks, subIdx, annotatedParts,
                 renumVars, validatorVars,
                 serviceVars, memoryWritable,
                 outputWritable>>

\* the run is interrupted, or has failed, and processFile is started again
\* on the same manuscript, with the options and the CHUNK_TOKENS of the new
\* invocation: the files stay, the memory of the process goes
Restart ==
  /\ pc \in {"loop", "fallback", "failed"}
  /\ run + 1 \in Runs
  /\ run' = run + 1
  /\ call' = NoCall
  /\ thrown' = NoError
  /\ pc' = "start"
  /\ chunks' = <<>>
  /\ chunkParas' = <<>>
  /\ chunkCosts' = <<>>
  /\ tokenCountCache' = <<>>
  /\ terms' = <<>>
  /\ lower' = {}
  /\ written' = ABSENT
  /\ resume' \in BOOLEAN
  /\ maxTokens' \in {maxTokens} \cup RerunBudgets
  /\ idx' = 0
  /\ tries' = 0
  /\ lastErr' = NO_ERROR
  /\ subchunks' = <<>>
  /\ subIdx' = 0
  /\ annotatedParts' = <<>>
  /\ UNCHANGED <<text, storeLimit, file, preserveChunks,
                 checkpoints, annotatedChunks, combined, combineNextId, output,
                 renumVars, validatorVars,
                 serviceVars, memoryWritable,
                 outputWritable>>

NextProcess ==
  \/ Start
  \/ CacheHit
  \/ \E reply \in Replies(IF pc = "loop" /\ idx \in 1..Len(chunks)
                          THEN chunks[idx] ELSE <<>>) : Attempt(reply)
  \/ \E reply \in Replies(IF pc = "fallback" THEN subchunks[subIdx]
                          ELSE <<>>) : SubAttempt(reply)
  \/ Combine
  \/ Restart

Spec == InitProcess /\ [][NextProcess]_vars

----------------------------------------------------------------------------
(* Specification of processFile with files that cannot be written: the     *)
(* runs over one manuscript in which the vocabulary-memory file, the       *)
(* output file, or neither rejects every write.                            *)

FaultJobs == {<<<<"b", NL, NL, "a", SP, "b">>, 2>>}
WriteFaults == {<<TRUE, TRUE>>, <<FALSE, TRUE>>, <<TRUE, FALSE>>}

InitFaults == InitProcessWith(FaultJobs, WriteFaults)

SpecFaults == InitFaults /\ [][NextProcess]_vars

----------------------------------------------------------------------------
(* Specification of processFile with progress: the run is one sequential   *)
(* process, so the step it is at is taken once the model call it waits for *)
(* has returned or failed; an interruption may still occur.                *)

LiveJobs == {<<<<"b", NL, NL, "a", SP, "b">>, 2>>}
MaxChunks == 2

InitLive == InitProcessWith(LiveJobs, {<<TRUE, TRUE>>})

\* the steps of processFile itself
ProcessStep ==
  \/ Start
  \/ CacheHit
  \/ \E reply \in Replies(IF pc = "loop" /\ idx \in 1..Len(chunks)
                          THEN chunks[idx] ELSE <<>>) : Attempt(reply)
  \/ \E reply \in Replies(IF pc = "fallback" THEN subchunks[subIdx]
                          ELSE <<>>) : SubAttempt(reply)
  \/ Combine

\* a step of processFile can be taken exactly while the run is going on
ProcessStepEnabled == pc \in {"start", "loop", "fallback"}

\* weak fairness of the steps of processFile, WF_vars(ProcessStep), written
\* out: a step of processFile is possible exactly in the states of
\* ProcessStepEnabled, and Restart, the one other step, is the only one to
\* change run
ProcessFairness ==
  \/ []<>(~ProcessStepEnabled)
  \/ []<><<run' = run>>_vars

SpecLive == InitLive /\ [][NextProcess]_vars /\ ProcessFairness

----------------------------------------------------------------------------
(* Specification of callChatWithBackoff: one call, each iteration of its   *)
(* loop taken at what postResponsesStream ends with and at the value of    *)
(* Math.random().                                                          *)

\* the largest maxRetries a call is made with (the callers pass none, and
\* the default is 6)
MaxMaxRetries == 7

\* what an invocation can end with
InvocationResults ==
  {[kind |-> "ok", status |-> 0, name |-> "none", timeout |-> FALSE]}
    \cup {[kind |-> "error", status |-> st, name |-> "Error",
            timeout |-> FALSE] :
            st \in RETRYABLE_STATUSES \cup {400, 500}}
    \cup {[kind |-> "error", status |-> 408, name |-> "Error",
            timeout |-> TRUE],
          [kind |-> "error", status |-> 0, name |-> "AbortError",
            timeout |-> FALSE],
          [kind |-> "error", status |-> 0, name |-> "Error",
            timeout |-> TRUE],
          [kind |-> "error", status |-> 0, name |-> "TypeError",
            timeout |-> FALSE]}

\* the values of Math.random(), in millionths
Randoms == {0, 999999}

InitBackoff ==
  /\ IdleAnnotator
  /\ IdleStream
  /\ IdleCount
  /\ IdlePaths
  /\ text = <<>>
  /\ tokenCountCache = <<>>
  /\ pc = "backoff"
  /\ maxRetries \in 0..MaxMaxRetries
  /\ attemptNo = 0
  /\ delaySeconds = INITIAL_DELAY
  /\ invocations = 0
  /\ lastError = NoInvocation
  /\ sleeps = <<>>
  /\ raised = NothingRaised

\* one iteration of the for loop: the invocation and, if it threw, the
\* catch block with its sleep
Iteration(result, random) ==
  /\ pc = "backoff"
  /\ attemptNo < maxRetries
  /\ invocations' = invocations + 1
  /\ lastError' = result
  /\ IF result.kind = "ok"
     THEN /\ raised' = Returned(invocations + 1)
          /\ pc' = "backoff_done"
          /\ UNCHANGED <<attemptNo, delaySeconds, sleeps>>
     ELSE IF ~shouldRetry(result) \/ attemptNo = maxRetries - 1
     THEN /\ raised' = AttemptError(invocations + 1)
          /\ pc' = "backoff_done"
          /\ UNCHANGED <<attemptNo, delaySeconds, sleeps>>
     ELSE /\ sleeps' = Append(sleeps,
                              [delay |-> delaySeconds, random |-> random,
                               sleepFor |-> SleepFor(delaySeconds, random)])
          /\ delaySeconds' = NextDelay(delaySeconds)
          /\ attemptNo' = attemptNo + 1
          /\ UNCHANGED <<pc, raised>>
  /\ UNCHANGED <<text, maxRetries, chunkerVars, renumVars, validatorVars,
                 vocabVars, processVars, streamVars, countVars, pathVars>>

\* the loop ends without a return or a throw: the last line throws
LoopExhausted ==
  /\ pc = "backoff"
  /\ attemptNo >= maxRetries
  /\ raised' = Exhausted
  /\ pc' = "backoff_done"
  /\ UNCHANGED <<text, maxRetries, attemptNo, delaySeconds, invocations,
                 lastError, sleeps, chunkerVars, renumVars, validatorVars,
                 vocabVars, processVars, streamVars, countVars, pathVars>>

NextBackoff ==
  \/ \E result \in InvocationResults, random \in Randoms :
       Iteration(result, random)
  \/ LoopExhausted

SpecBackoff == InitBackoff /\ [][NextBackoff]_vars

----------------------------------------------------------------------------
(* Specification of postResponsesStream: one call.  The endpoint answers   *)
(* with a body of records, which the reader delivers in pieces of any      *)
(* size; or the fetch fails, or the timeout fires.                         *)

MaxRecords == 3

\* the records a body is made of, each with its line terminator
BodyRecords ==
  {<<DATA_PREFIX, SP, DELTA_A, NL>>,
   <<DATA_PREFIX, DELTA_B, CR, NL>>,
   <<DATA_PREFIX, SP, FULL_TEXT_C, SP, NL>>,
   <<DATA_PREFIX, SP, FULL_TEXT_D, NL>>,
   <<DATA_PREFIX, SP, DONE_SENTINEL, NL>>,
   <<DATA_PREFIX, SP, OTHER_EVENT, NL>>,
   <<DATA_PREFIX, SP, ERROR_EVENT, NL>>,
   <<DATA_PREFIX, SP, JSON_NULL, NL>>,
   <<DATA_PREFIX, SP, BROKEN_JSON, NL>>,
   <<COMMENT, NL>>,
   <<NL>>}

\* the statuses of a response that is not ok
ErrorStatuses == {400, 429}

InitStream ==
  /\ IdleAnnotator
  /\ IdleBackoff
  /\ IdleCount
  /\ IdlePaths
  /\ text = <<>>
  /\ tokenCountCache = <<>>
  /\ pc = "fetching"
  /\ \E rs \in PieceSeqs(BodyRecords, MaxRecords) : responseBody = Flatten(rs)
  /\ stream = responseBody
  /\ buffer = <<>>
  /\ collected = <<>>
  /\ timerArmed = TRUE
  /\ streamOutcome = NoStreamOutcome

\* the timeout fires: controller.abort(new Error('timeout')) rejects the
\* pending fetch or read
TimeoutFires ==
  /\ timerArmed
  /\ pc \in {"fetching", "reading"}
  /\ timerArmed' = FALSE
  /\ streamOutcome' = StreamThrew("timeout")
  /\ pc' = "stream_done"
  /\ UNCHANGED <<text, responseBody, stream, buffer, collected, chunkerVars,
                 renumVars, validatorVars, vocabVars, processVars,
                 backoffVars, countVars, pathVars>>

\* fetch rejects for a reason of the network
FetchFails ==
  /\ pc = "fetching"
  /\ timerArmed' = FALSE
  /\ streamOutcome' = StreamThrew("network_error")
  /\ pc' = "stream_done"
  /\ UNCHANGED <<text, responseBody, stream, buffer, collected, chunkerVars,
                 renumVars, validatorVars, vocabVars, processVars,
                 backoffVars, countVars, pathVars>>

\* fetch resolves with a response that is not ok
ResponseNotOk(status) ==
  /\ pc = "fetching"
  /\ timerArmed' = FALSE
  /\ streamOutcome' = ApiError(status)
  /\ pc' = "stream_done"
  /\ UNCHANGED <<text, responseBody, stream, buffer, collected, chunkerVars,
                 renumVars, validatorVars, vocabVars, processVars,
                 backoffVars, countVars, pathVars>>

\* fetch resolves with a response that is ok: the headers have arrived
ResponseOk ==
  /\ pc = "fetching"
  /\ timerArmed' = FALSE
  /\ pc' = "reading"
  /\ UNCHANGED <<text, responseBody, stream, buffer, collected,
                 streamOutcome, chunkerVars, renumVars, validatorVars,
                 vocabVars, processVars, backoffVars, countVars, pathVars>>

\* reader.read() resolves with the next n symbols of the body: one pass
\* of the while loop
Read(n) ==
  /\ pc = "reading"
  /\ n \in 1..Len(stream)
  /\ stream' = From(stream, n + 1)
  /\ \E lines \in {SplitLines(buffer \o SubSeq(stream, 1, n))} :
       \E r \in {ProcessLines(AllButLast(lines), collected)} :
         /\ buffer' = lines[Len(lines)]
         /\ collected' = r.text
         /\ IF r.kind = "continue"
            THEN UNCHANGED <<pc, streamOutcome>>
            ELSE streamOutcome' = r /\ pc' = "stream_done"
  /\ UNCHANGED <<text, responseBody, timerArmed, chunkerVars, renumVars,
                 validatorVars, vocabVars, processVars, backoffVars,
                 countVars, pathVars>>

\* reader.read() resolves with done: the loop is left and `collected` is
\* returned
EndOfStream ==
  /\ pc = "reading"
  /\ stream = <<>>
  /\ streamOutcome' = StreamReturned(collected)
  /\ pc' = "stream_done"
  /\ UNCHANGED <<text, responseBody, stream, buffer, collected, timerArmed,
                 chunkerVars, renumVars, validatorVars, vocabVars,
                 processVars, backoffVars, countVars, pathVars>>

NextStream ==
  \/ TimeoutFires
  \/ FetchFails
  \/ \E status \in ErrorStatuses : ResponseNotOk(status)
  \/ ResponseOk
  \/ \E n \in 1..Len(stream) : Read(n)
  \/ EndOfStream

SpecStream == InitStream /\ [][NextStream]_vars

----------------------------------------------------------------------------
(* Specification of ensureFootnotesAtEnd: one text of body lines and       *)
(* definition lines in any order is sanitized.                             *)

MaxLines == 4

\* the lines a text is made of: body lines, the empty line, definitions
TextLines ==
  {<<"a">>, <<"b", SP, "c">>, <<>>,
   DefinitionLine(1, <<"x">>), DefinitionLine(2, <<"y">>)}

InitSanitize ==
  /\ IdleProcess
  /\ pc = "sanitize"
  /\ \E ls \in PieceSeqs(TextLines, MaxLines) : content = Join(ls, <<NL>>)
  /\ outcome = NoOutcome
  /\ chunk = <<>>
  /\ marks = <<>>
  /\ defs = <<>>
  /\ deleted = 0
  /\ extra = {}
  /\ text = <<>>
  /\ maxTokens = 0
  /\ chunks = <<>>
  /\ chunkParas = <<>>
  /\ chunkCosts = <<>>
  /\ tokenCountCache = <<>>
  /\ start = 1
  /\ renum = NoResult
  /\ renumAgain = NoResult
  /\ storeLimit = 0
  /\ terms = <<>>
  /\ lower = {}
  /\ file = ABSENT
  /\ written = ABSENT

\* const sanitized = ensureFootnotesAtEnd(content)
Sanitize ==
  /\ pc = "sanitize"
  /\ outcome' = [status |-> "sanitized", text |-> ensureFootnotesAtEnd(content)]
  /\ pc' = "sanitized"
  /\ UNCHANGED <<text, chunk, responseVars, chunkerVars, renumVars, vocabVars,
                 processVars, serviceVars>>

NextSanitize == Sanitize

SpecSanitize == InitSanitize /\ [][NextSanitize]_vars

----------------------------------------------------------------------------
(* Specification of validatePreserveSource: a source of one word or of     *)
(* more words than the anchors hold, and a candidate made from it, are     *)
(* validated.                                                              *)

MaxSourceWords == 9

SourceWordSeqs ==
  [1..1 -> {"a", "b"}] \cup [1..MaxSourceWords -> {"a", "b"}]

\* the words joined by single spaces
WordsText(ws) == Join([k \in 1..Len(ws) |-> <<ws[k]>>], <<SP>>)

\* the candidates made from the words ws of a source: the source; two
\* neighbours swapped; a word replaced; a word inserted; the first and the
\* last anchor around a word; the source between two words; the source
\* twice
CandidateWordSeqs(ws) ==
  LET n == Len(ws) IN
  {ws, <<"c">> \o ws \o <<"c">>, ws \o ws,
   SubSeq(ws, 1, Min(n, ANCHOR_WORDS)) \o <<"c">>
     \o SubSeq(ws, Max(1, n - ANCHOR_WORDS + 1), n)}
    \cup {[k \in 1..n |-> IF k = i THEN ws[i + 1]
                          ELSE IF k = i + 1 THEN ws[i] ELSE ws[k]] :
            i \in 1..(n - 1)}
    \cup {[ws EXCEPT ![i] = "c"] : i \in 1..n}
    \cup {SubSeq(ws, 1, i) \o <<"c">> \o SubSeq(ws, i + 1, n) : i \in 0..n}

InitAnchor ==
  /\ IdleProcess
  /\ pc = "validate source"
  /\ \E ws \in SourceWordSeqs :
       /\ chunk = WordsText(ws)
       /\ \E cs \in CandidateWordSeqs(ws) : content = WordsText(cs)
  /\ outcome = NoOutcome
  /\ marks = <<>>
  /\ defs = <<>>
  /\ deleted = 0
  /\ extra = {}
  /\ text = <<>>
  /\ maxTokens = 0
  /\ chunks = <<>>
  /\ chunkParas = <<>>
  /\ chunkCosts = <<>>
  /\ tokenCountCache = <<>>
  /\ start = 1
  /\ renum = NoResult
  /\ renumAgain = NoResult
  /\ storeLimit = 0
  /\ terms = <<>>
  /\ lower = {}
  /\ file = ABSENT
  /\ written = ABSENT

\* validatePreserveSource(chunk, content)
ValidateSource ==
  /\ pc = "validate source"
  /\ outcome' = [status |-> IF validatePreserveSource(chunk, content)
                            THEN "preserved" ELSE "mismatch",
                 text |-> <<>>]
  /\ pc' = "source validated"
  /\ UNCHANGED <<text, chunk, responseVars, chunkerVars, renumVars, vocabVars,
                 processVars, serviceVars>>

NextAnchor == ValidateSource

SpecAnchor == InitAnchor /\ [][NextAnchor]_vars

----------------------------------------------------------------------------
(* Specification of the token cache: a sequence of calls of countTokens,   *)
(* each with a text not counted before or, a few times, with the text of   *)
(* the oldest or of the newest entry or with the first text of all.        *)

MaxCountCalls == 35
MaxRepeats == 2

\* the settings of TOKEN_COUNT_CACHE_SIZE in the environment: below the
\* minimum, above it, empty, and a word
CacheSizeSettings == {<<"8">>, <<"3", "3">>, <<>>, <<"x">>}

\* the text of n letters
RECURSIVE WordOfLength(_)
WordOfLength(n) == IF n = 0 THEN <<>> ELSE <<"a">> \o WordOfLength(n - 1)

\* the length of the next text that was not counted before
FreshLength == Len(counted) - countRepeats + 1

\* the lengths of the texts a call is repeated with
RepeatLengths ==
  IF tokenCountCache = <<>> THEN {}
  ELSE {Len(tokenCountCache[1].key),
        Len(tokenCountCache[Len(tokenCountCache)].key), 1}

InitCount ==
  /\ IdleAnnotator
  /\ IdleBackoff
  /\ IdleStream
  /\ IdlePaths
  /\ pc = "counting"
  /\ text = <<>>
  /\ tokenCountCache = <<>>
  /\ counted = <<>>
  /\ countRepeats = 0
  /\ countModel = <<>>
  /\ tokenCount = 0
  /\ \E env \in CacheSizeSettings : cacheSize = TokenCountCacheSize(env)

\* countTokens(text) with the text of n letters
CountTokens(n) ==
  /\ pc = "counting"
  /\ Len(counted) < MaxCountCalls
  /\ \/ n = FreshLength /\ countRepeats' = countRepeats
     \/ n \in RepeatLengths /\ countRepeats < MaxRepeats
        /\ countRepeats' = countRepeats + 1
  /\ text' = WordOfLength(n)
  /\ counted' = Append(counted, n)
  /\ tokenCountCache' =
       countTokensSized(cacheSize, tokenCountCache, text').cache
  /\ UNCHANGED <<cacheSize, countModel, tokenCount>>
  /\ UNCHANGED <<pc, maxTokens, chunks, chunkParas, chunkCosts, renumVars,
                 validatorVars, vocabVars, processVars, backoffVars,
                 streamVars, pathVars>>

NextCount == \E n \in 1..(MaxCountCalls + 1) : CountTokens(n)

SpecCount == InitCount /\ [][NextCount]_vars

----------------------------------------------------------------------------
(* Cache directories: defaultCacheBaseDir, baseCacheDirForInput,           *)
(* vocabMemoryPath.                                                        *)

SEP == "/"
CACHE_ROOT == <<"/", "w", "/", ".", "c", "a", "c", "h", "e">>
CACHE_SUFFIX == <<".", "c", "a", "c", "h", "e">>
CHUNKS_DIR == <<"c", "h", "u", "n", "k", "s">>
VOCAB_MEMORY_SUFFIX == <<"v", "o", "c", "a", "b">>
DEFAULT_NAME == <<"i", "n", "p", "u", "t">>

\* the characters [a-zA-Z0-9._-] among those of the model
SAFE_NAME_CHARS == {"a", "b", "d", "e", ".", "_", "-"}

\* the position of the last c in s, 0 when there is none
LastPosition(s, c) ==
  LET at == {i \in 1..Len(s) : s[i] = c} IN
  IF at = {} THEN 0 ELSE CHOOSE i \in at : \A j \in at : j <= i

\* path.parse(p).base of an absolute path without a trailing separator
PathBase(p) == SubSeq(p, LastPosition(p, SEP) + 1, Len(p))

\* path.parse(p).name: the base without its extension, which starts at the
\* last dot unless that dot is the first character or the base is '..'
PathName(p) ==
  LET base == PathBase(p)
      dot == LastPosition(base, ".")
  IN IF dot <= 1 \/ base = <<".", ".">> THEN base
     ELSE SubSeq(base, 1, dot - 1)

\* name.replace(/[^a-zA-Z0-9._-]+/g, '_')
RECURSIVE SafeName(_)
SafeName(name) ==
  IF name = <<>> THEN <<>>
  ELSE IF Head(name) \in SAFE_NAME_CHARS
       THEN <<Head(name)>> \o SafeName(Tail(name))
       ELSE IF Len(name) > 1 /\ name[2] \notin SAFE_NAME_CHARS
            THEN SafeName(Tail(name))
            ELSE <<"_">> \o SafeName(Tail(name))

\* path.join(a, b) of two normalized parts
PathJoin(a, b) == a \o <<SEP>> \o b

defaultCacheBaseDir(inputPath) ==
  LET rawName == IF PathName(inputPath) = <<>> THEN DEFAULT_NAME
                 ELSE PathName(inputPath)
  IN PathJoin(CACHE_ROOT, SafeName(rawName) \o CACHE_SUFFIX)

\* baseCacheDirForInput of pipeline.js, for an absolute path
baseCacheDirForInput(inputPath) ==
  LET name == PathName(inputPath)
      safeName == SafeName(IF name = <<>> THEN DEFAULT_NAME ELSE name)
  IN PathJoin(CACHE_ROOT, safeName \o CACHE_SUFFIX)

\* the checkpoint directory of a run
cacheDir(resolvedBaseCache) == PathJoin(resolvedBaseCache, CHUNKS_DIR)

vocabMemoryPath(baseCacheDir) == PathJoin(baseCacheDir, VOCAB_MEMORY_SUFFIX)

----------------------------------------------------------------------------
(* Specification of the cache directories of two runs: the input files are *)
(* two different absolute paths, and each run derives its base cache       *)
(* directory from its path, by defaultCacheBaseDir in annotate.mjs or by   *)
(* baseCacheDirForInput in pipeline.js.                                    *)

MaxNameLen == 3

\* the characters of file names and the directories of the input files
NameChars == {"a", ".", " ", "_"}
InputDirs == {<<"/", "d">>, <<"/", "e">>}

\* the file names of at most n characters
RECURSIVE NamesUpTo(_)
NamesUpTo(n) ==
  IF n = 0 THEN {<<>>}
  ELSE LET shorter == NamesUpTo(n - 1) IN
       shorter \cup {Append(w, c) : w \in shorter, c \in NameChars}

\* the names that are no file names
NoFileNames == {<<>>, <<".">>, <<".", ".">>}

InputFiles ==
  {dir \o <<SEP>> \o base :
     dir \in InputDirs, base \in NamesUpTo(MaxNameLen) \ NoFileNames}

InitPaths ==
  /\ IdleAnnotator
  /\ IdleBackoff
  /\ IdleStream
  /\ IdleCount
  /\ pc = "paths"
  /\ text = <<>>
  /\ tokenCountCache = <<>>
  /\ \E first, second \in InputFiles :
       /\ first # second
       /\ inputPaths = <<first, second>>
  /\ baseDirs = <<>>

\* processFile of both runs up to the base cache directory
DefaultCacheBaseDirs ==
  /\ pc = "paths"
  /\ baseDirs' = <<defaultCacheBaseDir(inputPaths[1]),
                   defaultCacheBaseDir(inputPaths[2])>>
  /\ pc' = "annotate dirs"
  /\ UNCHANGED <<text, chunkerVars, renumVars, validatorVars, vocabVars,
                 processVars, backoffVars, streamVars, countVars, inputPaths>>

\* buildPipelinePaths of both runs up to the base cache directory
BaseCacheDirsForInput ==
  /\ pc = "paths"
  /\ baseDirs' = <<baseCacheDirForInput(inputPaths[1]),
                   baseCacheDirForInput(inputPaths[2])>>
  /\ pc' = "pipeline dirs"
  /\ UNCHANGED <<text, chunkerVars, renumVars, validatorVars, vocabVars,
                 processVars, backoffVars, streamVars, countVars, inputPaths>>

NextPaths == DefaultCacheBaseDirs \/ BaseCacheDirsForInput

SpecPaths == InitPaths /\ [][NextPaths]_vars

----------------------------------------------------------------------------
(* Specification of the token cache under several model names: a sequence  *)
(* of calls of countTokens(text, model), each with a text not counted      *)
(* before under the model name of the run or, a few times, with one of a   *)
(* few texts under one of two model names.                                 *)

MaxModelCalls == 34
MaxOtherCalls == 2

\* the model name of the run and a second one
MODEL_NAME == <<"m">>
OtherModel == <<"m", ":", ":", "a", " ", "a">>

\* the calls made besides those with a new text
OtherCalls ==
  {[model |-> MODEL_NAME, text |-> <<"a">>],
   [model |-> OtherModel, text |-> <<"a">>],
   [model |-> OtherModel, text |-> <<"z">>],
   [model |-> MODEL_NAME, text |-> <<"a", " ", "a", ":", ":", "z">>]}

InitModels ==
  /\ IdleAnnotator
  /\ IdleBackoff
  /\ IdleStream
  /\ IdlePaths
  /\ pc = "counting models"
  /\ text = <<>>
  /\ tokenCountCache = <<>>
  /\ counted = <<>>
  /\ countRepeats = 0
  /\ cacheSize = Number(TOKEN_COUNT_CACHE_SIZE)
  /\ countModel = <<>>
  /\ tokenCount = 0

\* countTokens(s, model)
CountTokensOfModel(s, model) ==
  /\ pc = "counting models"
  /\ Len(counted) < MaxModelCalls
  /\ \E result \in {countTokensOfModel(cacheSize, tokenCountCache, s, model)} :
       /\ tokenCountCache' = result.cache
       /\ tokenCount' = result.value
  /\ text' = s
  /\ countModel' = model
  /\ counted' = Append(counted, Len(s))
  /\ UNCHANGED <<pc, cacheSize, maxTokens, chunks, chunkParas, chunkCosts,
                 renumVars, validatorVars, vocabVars, processVars,
                 backoffVars, streamVars, pathVars>>

\* a call with a text not counted before
CountNewText ==
  /\ CountTokensOfModel(WordOfLength(FreshLength + 1), MODEL_NAME)
  /\ countRepeats' = countRepeats

\* a call with one of the other texts and model names
CountOther(c) ==
  /\ countRepeats < MaxOtherCalls
  /\ CountTokensOfModel(c.text, c.model)
  /\ countRepeats' = countRepeats + 1

NextModels ==
  \/ CountNewText
  \/ \E c \in OtherCalls : CountOther(c)

SpecModels == InitModels /\ [][NextModels]_vars

----------------------------------------------------------------------------
(* Claims about the Chunker.                                               *)

BLANK_LINE == <<NL, NL>>

\* s with every match of /\n\s*\n/ replaced by one blank line
RECURSIVE NormalizeBreaks(_, _)
NormalizeBreaks(s, i) ==
  IF i > Len(s) THEN <<>>
  ELSE LET m == ParagraphBreakAt(s, i)
       IN IF m > 0 THEN BLANK_LINE \o NormalizeBreaks(s, i + m)
          ELSE <<s[i]>> \o NormalizeBreaks(s, i + 1)

\* the text has no leading or trailing whitespace and every paragraph break
\* in it is exactly one blank line
CanonicalBreaks(s) ==
  /\ Trim(s) = s
  /\ \A i \in 1..Len(s) : ParagraphBreakAt(s, i) \in {0, 2}

RECURSIVE SumTokens(_)
SumTokens(paragraphs) ==
  IF paragraphs = <<>> THEN 0
  ELSE approximateTokenCount(Head(paragraphs)) + SumTokens(Tail(paragraphs))

\* C1 as stated: joining the chunks with a blank line reproduces the
\* manuscript text exactly, character for character.
C1_JoinReproducesTextExactly ==
  pc = "split_done" => Join(chunks, BLANK_LINE) = text

\* C1 as amended: joining the chunks with a blank line reproduces the
\* manuscript trimmed of leading and trailing whitespace, with every
\* paragraph break (a match of /\n\s*\n/) replaced by one blank line: the
\* same paragraphs in the same order with the same characters; it is the
\* text itself when the text is trimmed and its breaks are blank lines.
C1_JoinReproducesNormalizedText ==
  pc = "split_done" =>
    /\ Join(chunks, BLANK_LINE) = NormalizeBreaks(Trim(text), 1)
    /\ Flatten(chunkParas) = SplitParagraphs(Trim(text))
    /\ CanonicalBreaks(text) => Join(chunks, BLANK_LINE) = text

C1_Witness ==
  /\ pc = "split_done"
  /\ Len(chunks) >= 2
  /\ Join(chunks, BLANK_LINE) # text

\* C2: every chunk's running token sum is at most effectiveMax, unless the
\* chunk is one paragraph whose own estimate exceeds effectiveMax.
C2_ChunkWithinBudget ==
  pc = "split_done" =>
    \A j \in 1..Len(chunks) :
      /\ chunks[j] = Join(chunkParas[j], BLANK_LINE)
      /\ chunkCosts[j] = SumTokens(chunkParas[j])
      /\ \/ chunkCosts[j] <= EffectiveMax(maxTokens)
         \/ /\ Len(chunkParas[j]) = 1
            /\ approximateTokenCount(chunkParas[j][1]) > EffectiveMax(maxTokens)

C2_Witness ==
  /\ pc = "split_done"
  /\ Len(chunks) >= 2
  /\ \E j \in 1..Len(chunks) : chunkCosts[j] > EffectiveMax(maxTokens)
  /\ \E j \in 1..Len(chunks) : Len(chunkParas[j]) >= 2

----------------------------------------------------------------------------
(* Claims about the FootnoteRenumberer.                                    *)

\* the distinct footnote identifiers of s, by position of first occurrence
\* (inline marker or definition, whichever comes first)
IdsByFirstOccurrence(s) == FirstSeen(MatchesFrom(s, 1), <<>>)

\* the identifiers n, n + 1, ..., n + k - 1 as written in a text
IdRun(n, k) == [j \in 1..k |-> StringOf(n + j - 1)]

\* C3: the output's distinct identifiers, by first occurrence, are start,
\* start + 1, ..., start + k - 1 for the k distinct identifiers of the
\* input, and nextId = start + k.
C3_SequentialFromStart ==
  pc # "renumber" =>
    LET k == Len(IdsByFirstOccurrence(text))
    IN /\ IdsByFirstOccurrence(renum.text) = IdRun(start, k)
       /\ renum.nextId = start + k

C3_Witness ==
  /\ pc = "renumbered"
  /\ Len(IdsByFirstOccurrence(text)) >= 2
  /\ renum.text # text
  /\ \E m \in 1..Len(MatchesFrom(text, 1)) :
       /\ MatchesFrom(text, 1)[m].kind = "def"
       /\ \A n \in 1..(m - 1) :
            MatchesFrom(text, 1)[n].id # MatchesFrom(text, 1)[m].id

\* C4 as stated: with r = normalizeFootnotesSafe(text, 1), the call
\* normalizeFootnotesSafe(r.text, r.nextId) returns a text equal to r.text.
C4_FromNextIdChangesNothing ==
  (pc = "again_from_next" /\ start = 1) => renumAgain.text = renum.text

\* C4 as amended: renumbering the result again from the same start changes
\* nothing (same text, same nextId); renumbering it from the returned
\* nextId moves its k identifiers to nextId, ..., nextId + k - 1, which
\* leaves the text unchanged only when it holds no footnote identifier.
C4_IdempotentFromSameStart ==
  /\ pc = "again_same_start" => renumAgain = renum
  /\ pc = "again_from_next" =>
       LET k == Len(IdsByFirstOccurrence(text))
       IN /\ IdsByFirstOccurrence(renumAgain.text) = IdRun(renum.nextId, k)
          /\ (renumAgain.text = renum.text) <=> (k = 0)

C4_Witness ==
  /\ pc = "again_same_start"
  /\ Len(IdsByFirstOccurrence(text)) >= 2
  /\ renum.text # text
  /\ \E m \in 1..Len(MatchesFrom(text, 1)) : MatchesFrom(text, 1)[m].kind = "def"

----------------------------------------------------------------------------
(* Claims about what normalizeFootnotesSafe leaves alone.                  *)

\* the text without the digits of its markers and definitions
RECURSIVE SkeletonFrom(_, _)
SkeletonFrom(s, i) ==
  LET j == NextMarkerFrom(s, i)
  IN IF j = 0 THEN From(s, i)
     ELSE SubSeq(s, i, j + 1) \o SkeletonFrom(s, MarkerEnd(s, j))

\* C38: normalizeFootnotesSafe changes nothing but identifiers and keeps the
\* pairing: the output equals the input outside the digits of markers and
\* definitions, every occurrence keeps its kind, and two occurrences carry
\* the same identifier in the output exactly when they did in the input
C38_OnlyIdentifiersChange ==
  pc = "renumbered" =>
    \A ms \in {MatchesFrom(text, 1)} :
      \A mo \in {MatchesFrom(renum.text, 1)} :
        /\ SkeletonFrom(renum.text, 1) = SkeletonFrom(text, 1)
        /\ Len(mo) = Len(ms)
        /\ \A k \in 1..Len(ms) : mo[k].kind = ms[k].kind
        /\ \A a, b \in 1..Len(ms) :
             (mo[a].id = mo[b].id) <=> (ms[a].id = ms[b].id)

\* a marker and its definition, renumbered to an identifier of another
\* length, beside a footnote with another identifier
C38_Witness ==
  /\ pc = "renumbered"
  /\ \E a, b, c \in 1..Len(MatchesFrom(text, 1)) :
       /\ MatchesFrom(text, 1)[a].kind = "ref"
       /\ MatchesFrom(text, 1)[b].kind = "def"
       /\ MatchesFrom(text, 1)[a].id = MatchesFrom(text, 1)[b].id
       /\ MatchesFrom(text, 1)[c].id # MatchesFrom(text, 1)[a].id
       /\ Len(MatchesFrom(renum.text, 1)[a].id) # Len(MatchesFrom(text, 1)[a].id)

----------------------------------------------------------------------------
(* Claims about the final combination.                                     *)

\* the number a string of digits writes
DigitValue(c) == (CHOOSE d \in 1..10 : DIGITS[d] = c) - 1

RECURSIVE NumberOf(_, _)
NumberOf(digits, acc) ==
  IF digits = <<>> THEN acc
  ELSE NumberOf(Tail(digits), 10 * acc + DigitValue(Head(digits)))

\* s with the identifier of every inline marker and of every definition
\* raised by n
RECURSIVE ShiftIds(_, _, _)
ShiftIds(s, i, n) ==
  LET j == NextMarkerFrom(s, i)
      e == MarkerEnd(s, j)
  IN IF j = 0 THEN From(s, i)
     ELSE SubSeq(s, i, j - 1)
          \o MarkerText(NumberOf(SubSeq(s, j + 2, e - 1), 0) + n)
          \o ShiftIds(s, e + 1, n)

IdCount(s) == Len(IdsByFirstOccurrence(s))
IdSet(s) == SeqRange(IdsByFirstOccurrence(s))

\* the number of distinct identifiers the checkpoints before chunk j hold
IdsBefore(j) == SumSeq([i \in 1..(j - 1) |-> IdCount(annotatedChunks[i])])

\* C5: at the final combination every checkpoint holds the local
\* identifiers 1..m; if the checkpoints before chunk j hold n distinct
\* identifiers, chunk j's part of the output is its checkpoint with every
\* identifier k, of a marker or of a definition, rewritten to n + k, so its
\* identifiers are n+1..n+m, no identifier is used by two chunks, and the
\* output written is the parts joined by blank lines.
C5_CombinationCarriesNextId ==
  pc = "done" =>
    /\ Len(combined) = Len(annotatedChunks)
    /\ \A j \in 1..Len(annotatedChunks) :
         LET n == IdsBefore(j)
             m == IdCount(annotatedChunks[j])
         IN /\ IdsByFirstOccurrence(annotatedChunks[j]) = IdRun(1, m)
            /\ combined[j]
                 = ShiftIds(ensureFootnotesAtEnd(annotatedChunks[j]), 1, n)
            /\ IdsByFirstOccurrence(combined[j]) = IdRun(n + 1, m)
    /\ \A i, j \in 1..Len(combined) :
         i # j => IdSet(combined[i]) \cap IdSet(combined[j]) = {}
    /\ combineNextId = 1 + IdsBefore(Len(annotatedChunks) + 1)
    /\ output = TextFile(Join(combined, <<NL, NL>>))

\* two chunks combined: the first holds the identifiers 1-2, the second
\* holds 1-2 in markers and in definitions and comes out with 3-4
C5_Witness ==
  /\ pc = "done"
  /\ Len(annotatedChunks) = 2
  /\ IdsByFirstOccurrence(annotatedChunks[1]) = IdRun(1, 2)
  /\ IdsByFirstOccurrence(annotatedChunks[2]) = IdRun(1, 2)
  /\ \E k \in 1..Len(MatchesFrom(annotatedChunks[2], 1)) :
       MatchesFrom(annotatedChunks[2], 1)[k].kind = "ref"
  /\ \E k \in 1..Len(MatchesFrom(annotatedChunks[2], 1)) :
       MatchesFrom(annotatedChunks[2], 1)[k].kind = "def"
  /\ IdsByFirstOccurrence(combined[2]) = IdRun(3, 2)
  /\ combined[2] # annotatedChunks[2]

----------------------------------------------------------------------------
(* Claims about the output of a run.                                       *)

\* s without its footnote definition lines (the lines that start with a
\* marker and a colon)
RECURSIVE RemoveDefLines(_, _)
RemoveDefLines(s, i) ==
  LET j == FirstIn({k \in i..Len(s) : IsDefLineStart(s, k)})
  IN IF j = 0 THEN From(s, i)
     ELSE SubSeq(s, i, j - 1) \o RemoveDefLines(s, LineEnd(s, j) + 1)

\* s with the footnote markers and definitions removed, modulo the
\* whitespace and dash-spacing normalization of the Validator
OutputBody(s) ==
  normalizeWhitespace(normalizeDashSpacing(StripRefs(RemoveDefLines(s, 1), 1)))

\* the parts occur in body one after the other, from position from on
RECURSIVE OccurInOrder(_, _, _)
OccurInOrder(body, parts, from) ==
  IF parts = <<>> THEN TRUE
  ELSE LET k == FirstIn({i \in from..(Len(body) + 1) :
                           OccursAt(body, Head(parts), i)})
       IN k # 0 /\ OccurInOrder(body, Tail(parts), k + Len(Head(parts)))

ChunkNorms == [i \in 1..Len(chunks) |-> SrcNorm(chunks[i])]

\* C12: after every successful run of processFile, also one that used the
\* shrink fallback or resumed from checkpoints, the output with the
\* footnote markers and definitions removed holds the text of chunk 1,
\* then of chunk 2, ..., then of the last chunk (compared modulo the
\* whitespace normalization the Validator applies), none missing.
C12_OutputPreservesManuscript ==
  pc = "done" =>
    /\ SrcNorm(text) = Join(ChunkNorms, <<SP>>)
    /\ OccurInOrder(OutputBody(output.data), ChunkNorms, 1)

\* what holds of the code: the same for a run that found no checkpoint of
\* an earlier run
C12_FirstRunPreservesManuscript ==
  (pc = "done" /\ run = 1) =>
    /\ SrcNorm(text) = Join(ChunkNorms, <<SP>>)
    /\ OccurInOrder(OutputBody(output.data), ChunkNorms, 1)

\* the identifiers of the inline markers, and of the definitions, of s
RefIds(s) == {refMatches(s)[k].id : k \in 1..Len(refMatches(s))}
DefIds(s) == {defMatches(s)[k].id : k \in 1..Len(defMatches(s))}

\* C13: in the output written by processFile every inline footnote marker
\* has a footnote definition with the same identifier.
C13_NoDanglingMarker ==
  pc = "done" => RefIds(output.data) \subseteq DefIds(output.data)

----------------------------------------------------------------------------
(* Claims about the loop of processFile over the chunks.                   *)

\* the loop is at the head of its pass for chunk idx
AtChunkHead == pc = "loop" /\ idx \in 1..Len(chunks) /\ tries = 0

\* C14: when the loop reaches chunk i, the step it takes is the skip (no
\* model call, the checkpoint left as it is, the checkpoint's text fed to
\* VocabMemory, the loop moved to chunk i + 1) if resume is enabled and a
\* non-empty checkpoint of index i exists, and is a model call for chunk i
\* otherwise, also when a checkpoint exists and resume is disabled.
C14_SkipIffResumeAndCheckpoint ==
  [][(AtChunkHead /\ run' = run) =>
       IF resume /\ idx \in DOMAIN checkpoints /\ checkpoints[idx] # <<>>
       THEN /\ call' = NoCall
            /\ checkpoints' = checkpoints
            /\ idx' = idx + 1
            /\ pc' = "loop"
            /\ LET m == updateFromText([terms |-> terms, lower |-> lower],
                                       checkpoints[idx], storeLimit)
               IN terms' = m.terms /\ lower' = m.lower
       ELSE /\ call'.idx = idx
            /\ call'.text = chunks[idx]]_vars

\* a second run with resume has skipped chunk 1 on its checkpoint, whose
\* term is in the memory
C14_Witness ==
  /\ pc = "loop"
  /\ run = 2
  /\ resume
  /\ idx = 2
  /\ call = NoCall
  /\ 1 \in DOMAIN checkpoints
  /\ extractTerms(checkpoints[1]) # <<>>
  /\ terms = extractTerms(checkpoints[1])

\* the error the last model call ended with
LastCallMessage == AnnotateOutcome(call.text, call.reply).message

\* C15: when chunk k fails for good, processFile throws an error that
\* names k and the message of the last underlying error, the last model
\* call being one for chunk k; no output has been written, and the run
\* takes no further step: no chunk after k is annotated and nothing is
\* combined (the only step left is a new invocation of processFile).
C15_TerminalFailureAborts ==
  /\ [](pc = "failed" =>
         /\ idx \in 1..Len(chunks)
         /\ call.idx = idx
         /\ LastCallMessage # NO_ERROR
         /\ thrown = [chunk |-> idx, message |-> LastCallMessage]
         /\ output = ABSENT)
  /\ [][pc = "failed" =>
          /\ run' = run + 1
          /\ pc' = "start"
          /\ call' = NoCall
          /\ UNCHANGED <<checkpoints, output, file>>]_vars

\* chunk 1 of two has failed for good on a timeout
C15_Witness ==
  /\ pc = "failed"
  /\ Len(chunks) = 2
  /\ idx = 1
  /\ tries = MAX_TRIES
  /\ thrown = [chunk |-> 1, message |-> TIMEOUT_MESSAGE]

\* a non-empty checkpoint of index i exists
HasCheckpoint(i) == i \in DOMAIN checkpoints /\ checkpoints[i] # <<>>

\* C16: when a run fails at chunk k, the checkpoints of the chunks 1..k-1
\* exist, and neither the failing step nor the cleanup after it nor the
\* start of the next run changes a checkpoint or the vocabulary-memory
\* file; and a run with resume enabled makes no model call for an index
\* whose checkpoint exists, so the next run makes none for 1..k-1.
C16_FailureKeepsProgress ==
  /\ [](pc = "failed" => \A i \in 1..(idx - 1) : HasCheckpoint(i))
  /\ [][(pc' = "failed" \/ pc = "failed") =>
          UNCHANGED <<checkpoints, file>>]_vars
  /\ [][(resume /\ run' = run /\ call' # NoCall) =>
          ~HasCheckpoint(call'.idx)]_vars

\* the run has failed at chunk 2, with the checkpoint of chunk 1 and the
\* vocabulary of chunk 1 on disk
C16_Witness ==
  /\ pc = "failed"
  /\ idx = 2
  /\ HasCheckpoint(1)
  /\ file # ABSENT
  /\ file.data = extractTerms(checkpoints[1])

\* C17: when the reply for the last sub-chunk of chunk i is accepted, all
\* sub-chunks before it having been accepted, the results of the
\* sub-chunks, joined by blank lines and renumbered from 1, are written to
\* the checkpoint of index i, the loop moves on to chunk i + 1 with a
\* fresh count of tries, and no later model call of the run is for chunk i
\* (every call is for the chunk the loop is at, and the loop never goes
\* back).
C17_FallbackSuccessWritesCheckpoint ==
  /\ [][(pc = "fallback" /\ subIdx = Len(subchunks) /\ run' = run) =>
          \A reply \in {call'.reply} :
            \A o \in {AnnotateOutcome(subchunks[subIdx], reply)} :
              o.ok =>
                \A local \in {LocalText(o.text)} :
                  \A joined \in {Join(Append(annotatedParts, local),
                                       <<NL, NL>>)} :
                    /\ Len(annotatedParts) = Len(subchunks) - 1
                    /\ checkpoints' =
                         (idx :> normalizeFootnotesSafe(joined, 1).text)
                           @@ checkpoints
                    /\ idx' = idx + 1
                    /\ tries' = 0
                    /\ pc' = "loop"]_vars
  /\ [][run' = run =>
          /\ idx' >= idx
          /\ call' # NoCall => call'.idx = idx]_vars

\* the shrink fallback has just succeeded for a chunk of two sub-chunks:
\* the last call was for its second sub-chunk, and the checkpoint holds
\* the annotations of both
C17_Witness ==
  /\ pc = "loop"
  /\ tries = 0
  /\ call # NoCall
  /\ idx = call.idx + 1
  /\ call.text # chunks[call.idx]
  /\ HasCheckpoint(call.idx)
  /\ Len(refMatches(checkpoints[call.idx])) = 2

\* C18: when a model call made for a chunk fails with a fatal request
\* error (status 400), the chunk is aborted at once: the next step of the
\* run makes no model call for that chunk (neither for the chunk itself
\* nor for one of its sub-chunks).
C18_FatalErrorAbortsChunk ==
  [][(call # NoCall /\ call.reply.kind = "api_error" /\ run' = run) =>
       (call' = NoCall \/ call'.idx # call.idx)]_vars

StepIsCacheHit ==
  /\ resume
  /\ HasCheckpoint(idx)
  /\ call' = NoCall
  /\ checkpoints' = checkpoints

\* the step under way makes a call for the chunk the loop is at, or for
\* one of its sub-chunks, and the reply is accepted
StepIsAcceptedCall ==
  /\ call' # NoCall
  /\ call'.idx = idx
  /\ AnnotateOutcome(call'.text, call'.reply).ok

\* C21: the chunks are processed one at a time in index order.  Within a
\* run every model call is for the chunk the loop is at; a checkpoint is
\* written and the vocabulary memory updated only for that chunk, by its
\* cache hit or by an accepted call; and the loop moves from chunk i to
\* chunk i + 1 only in the step in which chunk i succeeds, by its cache
\* hit or by the write of its checkpoint.
C21_ChunksInIndexOrder ==
  [][(run' = run /\ pc \in {"loop", "fallback"}) =>
       /\ call' # NoCall => (call'.idx = idx /\ idx \in 1..Len(chunks))
       /\ idx' \in {idx, idx + 1}
       /\ idx' = idx + 1 =>
            \/ StepIsCacheHit
            \/ StepIsAcceptedCall /\ idx \in DOMAIN checkpoints'
                 /\ checkpoints'[idx] # <<>>
       /\ \A i \in DOMAIN checkpoints' :
            (i \notin DOMAIN checkpoints \/ checkpoints'[i] # checkpoints[i])
              => (i = idx /\ idx' = idx + 1)
       /\ (terms' # terms /\ pc' # "done") =>
            (StepIsCacheHit \/ StepIsAcceptedCall)]_vars

\* chunk 2 is under way, one attempt at it has failed, and chunk 1 has its
\* checkpoint
C21_Witness ==
  /\ pc = "loop"
  /\ idx = 2
  /\ tries = 1
  /\ call # NoCall
  /\ call.idx = 2
  /\ HasCheckpoint(1)
  /\ ~HasCheckpoint(2)

\* the step under way is an ordinary attempt at the chunk the loop is at,
\* and it fails
StepIsFailedAttempt ==
  /\ pc = "loop"
  /\ run' = run
  /\ call' # NoCall
  /\ ~AnnotateOutcome(call'.text, call'.reply).ok

\* the failure of the step under way is a timeout or a source mismatch
\* and the attempt is the second or a later one
StepFiresShrinkTrigger ==
  /\ tries' >= 2
  /\ AnnotateOutcome(call'.text, call'.reply).message
       \in {TIMEOUT_MESSAGE, MISMATCH_MESSAGE}

\* C27: the shrink fallback is entered exactly when an attempt has failed,
\* it was the second or a later attempt at the chunk, and the failure is a
\* timeout or a source mismatch (and the chunk can be split): it is not
\* entered after the first failed attempt, nor after a missing emoji, an
\* empty response or a request error that is no timeout.
C27_ShrinkTrigger ==
  [][StepIsFailedAttempt =>
       /\ tries' = tries + 1
       /\ pc' = "fallback" <=>
            /\ StepFiresShrinkTrigger
            /\ \A plan \in {planShrunkSubchunks(chunks[idx], maxTokens,
                                                tokenCountCache)} :
                 plan.subs # <<>> /\ subchunks' = plan.subs]_vars

\* the fallback has been entered after the second attempt at a chunk
\* ended with a source mismatch
C27_Witness ==
  /\ pc = "fallback"
  /\ tries = 2
  /\ lastErr = MISMATCH_MESSAGE
  /\ Len(subchunks) = 2
  /\ subIdx = 1

\* C28: when the shrink trigger fires for a chunk that cannot be split,
\* the failure of the chunk is terminal: processFile throws the error of
\* the chunk and makes no further attempt at it.
C28_NoSplitIsTerminal ==
  [][(/\ StepIsFailedAttempt
      /\ StepFiresShrinkTrigger
      /\ planShrunkSubchunks(chunks[idx], maxTokens, tokenCountCache).subs
           = <<>>) =>
       /\ pc' = "failed"
       /\ thrown'.chunk = idx]_vars

\* the reply of the call just made is a non-empty candidate that, with its
\* footnotes moved to the end, passes both checks of the Validator against
\* the text `sent`
PassedBothChecks(sent, reply) ==
  /\ reply.kind = "text"
  /\ reply.text # <<>>
  /\ \A sanitized \in {ensureFootnotesAtEnd(reply.text)} :
       /\ validatePreserveSource(sent, sanitized)
       /\ validateFootnoteEmojis(sanitized)

\* C20: a checkpoint is created only after validation has succeeded.
\* Every step that creates or changes the checkpoint of an index i makes a
\* model call for chunk i whose reply passed both checks; in a normal
\* attempt the call was for the chunk itself and the checkpoint is that
\* reply renumbered, in the fallback the call was for the last sub-chunk
\* and the checkpoint is the renumbered join of the collected parts and
\* that reply; and every part collected for a sub-chunk is the renumbered
\* reply of a call for that sub-chunk that passed both checks.
C20_CheckpointOnlyAfterValidation ==
  /\ [][\A i \in DOMAIN checkpoints' :
          (i \notin DOMAIN checkpoints \/ checkpoints'[i] # checkpoints[i]) =>
            \A c \in {call'} :
              /\ idx = i
              /\ c.idx = i
              /\ PassedBothChecks(c.text, c.reply)
              /\ \A local \in {LocalText(ensureFootnotesAtEnd(c.reply.text))} :
                   IF pc = "loop"
                   THEN /\ c.text = chunks[i]
                        /\ checkpoints'[i] = local
                   ELSE /\ pc = "fallback"
                        /\ Len(annotatedParts) = Len(subchunks) - 1
                        /\ c.text = subchunks[Len(subchunks)]
                        /\ checkpoints'[i] =
                             normalizeFootnotesSafe(
                               Join(Append(annotatedParts, local),
                                    <<NL, NL>>), 1).text]_vars
  /\ [][(annotatedParts' # annotatedParts /\ annotatedParts' # <<>>) =>
          \A c \in {call'} :
            /\ pc = "fallback"
            /\ Len(annotatedParts) = subIdx - 1
            /\ c.idx = idx
            /\ c.text = subchunks[subIdx]
            /\ PassedBothChecks(c.text, c.reply)
            /\ annotatedParts' =
                 Append(annotatedParts,
                        LocalText(ensureFootnotesAtEnd(c.reply.text)))]_vars

\* a checkpoint has just been written from a validated reply that carries
\* a footnote
C20_Witness ==
  /\ pc = "loop"
  /\ call # NoCall
  /\ idx = call.idx + 1
  /\ call.text = chunks[call.idx]
  /\ PassedBothChecks(call.text, call.reply)
  /\ DefLineStarts(call.reply.text) # {}
  /\ HasCheckpoint(call.idx)
  /\ checkpoints[call.idx] = LocalText(ensureFootnotesAtEnd(call.reply.text))

----------------------------------------------------------------------------
(* Claims about the Validator.                                             *)

AllTagged == \A j \in 1..Len(defs) : defs[j] = "tagged"

\* the response is the chunk with inline markers inserted and
\* marker-prefixed definition lines appended, and nothing else
ValidAnnotation == deleted = 0 /\ extra = {} /\ AllTagged

\* the chunk holds no footnote syntax of its own, and no line of it starts
\* with a colon (where an inserted marker would read as a definition)
PlainChunk ==
  /\ MatchesFrom(chunk, 1) = <<>>
  /\ \A i \in 1..Len(chunk) : chunk[i] = ":" => (i > 1 /\ chunk[i - 1] # NL)

\* C6: the Validator accepts every response that is the chunk with inline
\* markers inserted at arbitrary positions and marker-prefixed definition
\* lines appended after the body.
C6_ValidAnnotationAccepted ==
  (pc = "validated" /\ ValidAnnotation) => outcome.status = "accepted"

\* what holds of the code: the same, for a chunk without footnote syntax
\* of its own and without a line that starts with a colon
C6_PlainChunkAnnotationAccepted ==
  (pc = "validated" /\ ValidAnnotation /\ PlainChunk) =>
    outcome.status = "accepted"

\* C7 as stated: a response that is a valid annotation with one original
\* word left out fails validatePreserveSource and is thrown with the
\* source-mismatch reason.
C7_DeletedWordSourceMismatch ==
  (pc = "validated" /\ deleted # 0 /\ AllTagged) =>
    /\ outcome.status = "source_mismatch"
    /\ ~validatePreserveSource(chunk, ensureFootnotesAtEnd(content))

\* C7 as amended: such a response fails validatePreserveSource and is never
\* accepted; it is thrown with the source-mismatch reason, or, when leaving
\* the word out leaves an empty response, as an empty response.
C7_DeletedWordRejected ==
  (pc = "validated" /\ deleted # 0 /\ AllTagged) =>
    /\ ~validatePreserveSource(chunk, ensureFootnotesAtEnd(content))
    /\ outcome.status =
         IF content = <<>> THEN "empty_response" ELSE "source_mismatch"

C7_Witness ==
  /\ pc = "validated"
  /\ deleted # 0
  /\ SumSeq(marks) >= 1
  /\ defs # <<>>
  /\ AllTagged
  /\ Len(WordsOf(chunk)) >= 2

\* a definition line's content begins with exactly one allowed marker
ExactlyOneMarker(c) ==
  /\ c # <<>>
  /\ Head(c) \in ALLOWED_EMOJIS
  /\ (Len(c) >= 2 => c[2] \notin ALLOWED_EMOJIS)

\* C8: the tag check accepts exactly the candidates whose every definition
\* line, trimmed, is non-empty and begins with exactly one allowed marker;
\* any other candidate is not accepted.
C8_TagCheckExactlyOneMarker ==
  pc = "validated" =>
    LET ok == \A i \in DefLineStarts(outcome.text) :
                ExactlyOneMarker(Trim(DefContent(outcome.text, i)))
    IN /\ validateFootnoteEmojis(outcome.text) <=> ok
       /\ outcome.status = "accepted" => ok

\* what holds of the code: at least one allowed marker
C8_TagCheckLeadingMarker ==
  pc = "validated" =>
    LET ok == \A i \in DefLineStarts(outcome.text) :
                LET c == Trim(DefContent(outcome.text, i))
                IN c # <<>> /\ Head(c) \in ALLOWED_EMOJIS
    IN /\ validateFootnoteEmojis(outcome.text) <=> ok
       /\ outcome.status = "accepted" => ok
       /\ (~ok /\ validatePreserveSource(chunk, outcome.text)) =>
            outcome.status = "emoji_missing"

\* C9: a candidate is accepted only if its body, with the footnote markers
\* and definitions removed, equals the original chunk modulo the
\* whitespace and dash-spacing normalization.
C9_AcceptedBodyEqualsSource ==
  (pc = "validated" /\ outcome.status = "accepted") =>
    BodyNorm(outcome.text) = SrcNorm(chunk)

\* what holds of the code: the normalized source is a substring of the body
C9_AcceptedBodyIncludesSource ==
  (pc = "validated" /\ outcome.status = "accepted") =>
    Includes(BodyNorm(outcome.text), SrcNorm(chunk))

----------------------------------------------------------------------------
(* Claims about VocabMemory.                                               *)

\* C10: after load and after any sequence of updateFromText/addTerms
\* calls, the number of terms held, and the number written by save, never
\* exceeds the store limit, whatever the configured store limit.
C10_WithinStoreLimit ==
  pc = "ready" =>
    /\ Len(terms) <= storeLimit
    /\ written # ABSENT => Len(written.data) <= storeLimit

\* what holds of the code: the same for a store limit of at least 1
C10_WithinPositiveStoreLimit ==
  (pc = "ready" /\ storeLimit >= 1) =>
    /\ Len(terms) <= storeLimit
    /\ written # ABSENT => Len(written.data) <= storeLimit

\* C11: after load and after any sequence of updateFromText/addTerms
\* calls, no two terms held are equal when compared case-insensitively,
\* and `lower` is exactly the set of the lower-cased terms held.
C11_NoCaseInsensitiveDuplicates ==
  pc = "ready" =>
    /\ \A i, j \in 1..Len(terms) :
         i # j => toLowerCase(terms[i]) # toLowerCase(terms[j])
    /\ lower = {toLowerCase(terms[k]) : k \in 1..Len(terms)}

\* the file held "a" and "A", of which load kept one, and a later call
\* added a second term
C11_Witness ==
  /\ pc = "ready"
  /\ storeLimit = 2
  /\ file = ArrayFile(<<<<"a">>, <<"A">>>>)
  /\ terms = <<<<"a">>, <<"b">>>>
  /\ lower = {<<"a">>, <<"b">>}

----------------------------------------------------------------------------
(* Claims about the footnotes of the shrink fallback. *)

\* the identifiers of the footnote definitions of a text
DefinitionIds(s) == {defMatches(s)[k].id : k \in 1..Len(defMatches(s))}

\* the footnotes of the parts, each part counted on its own
RECURSIVE FootnoteCount(_)
FootnoteCount(parts) ==
  IF parts = <<>> THEN 0
  ELSE Cardinality(DefinitionIds(Head(parts))) + FootnoteCount(Tail(parts))

\* the step ends a shrink fallback with success
StepIsFallbackSuccess ==
  /\ pc = "fallback"
  /\ subIdx = Len(subchunks)
  /\ run' = run
  /\ pc' = "loop"
  /\ idx' = idx + 1

\* C37: in the result of a shrink fallback, footnotes of different
\* sub-chunks never share an identifier: the result has as many distinct
\* identifiers as the sub-chunks have footnotes together
C37_SubchunkFootnotesStayDistinct ==
  [][StepIsFallbackSuccess =>
       \A reply \in {call'.reply} :
         \A local \in {LocalText(AnnotateOutcome(subchunks[subIdx], reply).text)} :
           \A parts \in {Append(annotatedParts, local)} :
             Cardinality(DefinitionIds(checkpoints'[idx])) = FootnoteCount(parts)]_vars

----------------------------------------------------------------------------
(* Claims about the checkpoints of a resumed run. *)

\* C39: a checkpoint taken as a cache hit for index i holds an annotation
\* of the text the Chunker of the current run assigns to chunk i, as
\* validatePreserveSource judges it
C39_CacheHitMatchesChunk ==
  [][StepIsCacheHit =>
       validatePreserveSource(chunks[idx], checkpoints[idx])]_vars

----------------------------------------------------------------------------
(* Claims about the termination of a chunk. *)

\* the step starts a shrink fallback
StepStartsFallback == pc = "loop" /\ pc' = "fallback"

----------------------------------------------------------------------------
(* Claims about VocabMemory in processFile. *)

\* the step updates the memory of the run in the loop over the chunks
StepUpdatesMemory ==
  /\ pc \in {"loop", "fallback"}
  /\ pc' \in {"loop", "fallback"}
  /\ terms' # terms

\* C33: whenever an update adds a term to the in-memory store, the store is
\* saved before the next model call is issued: after the step of the update
\* the vocabulary-memory file holds the terms of the store
C33_MemorySavedAfterUpdate ==
  [][StepUpdatesMemory =>
       file' = ArrayFile(SavePayload(terms', storeLimit))]_vars

\* C34: the vocabulary-memory file is removed only once the combined output
\* is written: a step that removes the file leaves the output written
C34_OutputBeforeMemoryRemoval ==
  [][(file # ABSENT /\ file' = ABSENT) => output' # ABSENT]_vars

\* the terms of the checkpoints on disk
CheckpointTerms ==
  UNION {{toLowerCase(t) : t \in SeqRange(extractTerms(checkpoints[i]))} :
           i \in DOMAIN checkpoints}

\* C35: in the first run over a manuscript, which loads no term, every term
\* of the store was extracted from the text of a chunk checkpoint, whenever
\* the run is between two attempts; the terms of the sub-chunks of a
\* fallback that failed are not in the store
C35_TermsComeFromCheckpoints ==
  (run = 1 /\ pc = "loop") =>
    \A k \in 1..Len(terms) : toLowerCase(terms[k]) \in CheckpointTerms

----------------------------------------------------------------------------
(* Claims about the windowed match of validatePreserveSource. *)

\* the anchors of the source are found in the candidate, the first before
\* the last
AnchorsFound ==
  WindowMatchMut(SrcNorm(chunk), BodyNorm(content))

\* C36: the windowed match never changes the verdict: validatePreserveSource
\* returns true exactly when the normalized source is empty or occurs in the
\* normalized body of the candidate
C36_WindowNeverChangesVerdict ==
  pc = "source validated" =>
    ((outcome.status = "preserved")
       <=> (SrcNorm(chunk) = <<>> \/ Includes(BodyNorm(content), SrcNorm(chunk))))

\* a candidate rejected although both anchors are found in it, in order
C36_Witness ==
  /\ pc = "source validated"
  /\ outcome.status = "mismatch"
  /\ ~Includes(BodyNorm(content), SrcNorm(chunk))
  /\ AnchorsFound

----------------------------------------------------------------------------
(* Claims about callChatWithBackoff.                                       *)

\* the error carries one of the transient status codes
HasTransientStatus(error) == error.status \in {429, 502, 503, 504}

\* the error carries no status code and is a timeout or an abort
IsStatuslessTimeout(error) ==
  error.status = 0 /\ (error.name = "AbortError" \/ error.timeout)

\* C22: after a failed invocation the loop goes on to another invocation
\* if and only if attempts remain and the error carries a transient status
\* (429, 502, 503, 504) or carries no status and is a timeout or an abort;
\* otherwise the error of that invocation is thrown at once; and
\* postResponsesStream is invoked at most maxRetries times.
C22_RetryIffTransient ==
  /\ [](invocations <= maxRetries)
  /\ [][(pc = "backoff" /\ invocations' = invocations + 1
          /\ lastError'.kind = "error") =>
          IF /\ invocations' < maxRetries
             /\ HasTransientStatus(lastError') \/ IsStatuslessTimeout(lastError')
          THEN pc' = "backoff" /\ attemptNo' < maxRetries
               /\ raised' = NothingRaised
          ELSE pc' = "backoff_done" /\ raised' = AttemptError(invocations')]_vars

\* a call with the default of six attempts has been retried twice and
\* has thrown the error of its third invocation, a status 400
C22_Witness ==
  /\ pc = "backoff_done"
  /\ maxRetries = 6
  /\ invocations = 3
  /\ Len(sleeps) = 2
  /\ lastError.status = 400
  /\ raised = AttemptError(3)

\* C23: when every one of the maxRetries invocations has failed with a
\* retryable error, what is thrown is the final error of exhaustion and
\* not the error object of an invocation.
C23_ExhaustionErrorIsDistinct ==
  (/\ pc = "backoff_done"
   /\ maxRetries >= 1
   /\ invocations = maxRetries
   /\ lastError.kind = "error"
   /\ HasTransientStatus(lastError) \/ IsStatuslessTimeout(lastError)) =>
    raised = Exhausted

\* the share of the delay that sleep i adds to it, in thousandths
JitterFraction(i) ==
  ((sleeps[i].sleepFor - sleeps[i].delay) * 1000) \div sleeps[i].delay

\* C24, as stated: the sleep is delay * (1 + jitter), jitter being a
\* random fraction: two sleeps taken at the same value of Math.random()
\* add the same fraction of their delay.
C24_SleepIsDelayTimesJitter ==
  \A i, j \in 1..Len(sleeps) :
    sleeps[i].random = sleeps[j].random => JitterFraction(i) = JitterFraction(j)

\* C24, amended: on a retryable failure before the last attempt, and
\* only then, callChatWithBackoff sleeps for delay + jitter, jitter being
\* a random duration from 0.2 s up to, not including, 0.6 s whatever the
\* delay is; the delay starts at 1.5 s, is multiplied by 1.7 after each
\* sleep and never exceeds 20 s.
C24_SleepIsDelayPlusJitter ==
  /\ [](\A i \in 1..Len(sleeps) :
          /\ sleeps[i].sleepFor - sleeps[i].delay \in 200000..599999
          /\ sleeps[i].delay <= 20000000
          /\ sleeps[i].delay =
               IF i = 1 THEN 1500000
               ELSE IF (sleeps[i - 1].delay * 17) \div 10 > 20000000
               THEN 20000000
               ELSE (sleeps[i - 1].delay * 17) \div 10)
  /\ [][invocations' = invocations + 1 =>
          IF /\ lastError'.kind = "error"
             /\ HasTransientStatus(lastError') \/ IsStatuslessTimeout(lastError')
             /\ invocations' < maxRetries
          THEN Len(sleeps') = Len(sleeps) + 1
               /\ SubSeq(sleeps', 1, Len(sleeps)) = sleeps
          ELSE sleeps' = sleeps]_vars

\* a call has slept six times, the sixth time with the delay at its cap
C24_Witness ==
  /\ Len(sleeps) = 6
  /\ sleeps[5].delay = 12528150
  /\ sleeps[6].delay = 20000000
  /\ sleeps[6].sleepFor = 20599999

----------------------------------------------------------------------------
(* Claims about postResponsesStream.                                       *)

\* C25: every call is bounded by the timeout, while it waits for the
\* headers and while it reads the body: as long as the call has neither
\* returned nor thrown, the timeout is set, so that it aborts the call
\* when no terminal event arrives in time.
C25_CallBoundedByTimeout ==
  pc \in {"fetching", "reading"} => timerArmed

\* the text of the delta and full-text payloads of a body, in order, up
\* to the first [DONE]
RECURSIVE TextBeforeDone(_)
TextBeforeDone(body) ==
  IF body = <<>> \/ Head(body) = DONE_SENTINEL THEN <<>>
  ELSE (IF Head(body) = DELTA_A THEN <<"a">>
        ELSE IF Head(body) = DELTA_B THEN <<"b">>
        ELSE IF Head(body) = FULL_TEXT_C THEN <<"c">>
        ELSE IF Head(body) = FULL_TEXT_D THEN <<"d">>
        ELSE <<>>) \o TextBeforeDone(Tail(body))

\* an error event precedes the first [DONE] of the body
RECURSIVE ErrorBeforeDone(_)
ErrorBeforeDone(body) ==
  IF body = <<>> \/ Head(body) = DONE_SENTINEL THEN FALSE
  ELSE Head(body) = ERROR_EVENT \/ ErrorBeforeDone(Tail(body))

\* C26: for a body of newline-terminated records without an error event
\* before the first [DONE], delivered in pieces of any size, the call that
\* has read the body returns the text of the well-formed delta and
\* full-text records before the first [DONE], in order; lines without the
\* `data:` prefix and payloads that are no event are skipped.
C26_StreamReturnsConcatenation ==
  (/\ pc = "stream_done"
   /\ streamOutcome.kind \notin {"timeout", "network_error", "api_error"}
   /\ ~ErrorBeforeDone(responseBody)) =>
    streamOutcome = StreamReturned(TextBeforeDone(responseBody))

----------------------------------------------------------------------------
(* Claims about ensureFootnotesAtEnd.                                      *)

IsDefinitionLine(line) == IsDefAt(line, 1)
IsBodyLine(line) == line # <<>> /\ ~IsDefAt(line, 1)

\* C29: the result holds the body lines of the text in their order, then
\* its definition lines in their order: no body line is dropped or moved,
\* and no body line comes after a definition line.
C29_FootnotesMovedToEnd ==
  pc = "sanitized" =>
    \A in \in {SplitLines(content)} :
      \A out \in {SplitLines(outcome.text)} :
        /\ SelectSeq(out, IsBodyLine) = SelectSeq(in, IsBodyLine)
        /\ SelectSeq(out, IsDefinitionLine) = SelectSeq(in, IsDefinitionLine)
        /\ \A i, j \in 1..Len(out) :
             (i < j /\ IsDefinitionLine(out[i])) => ~IsBodyLine(out[j])

----------------------------------------------------------------------------
(* Claims about countTokens. *)

\* the texts the cache holds
CachedKeys(cache) == {cache[k].key : k \in 1..Len(cache)}

\* the number of the last call that counted the text s, 0 when never
LastUse(calls, s) ==
  LET uses == {j \in 1..Len(calls) : calls[j] = Len(s)} IN
  IF uses = {} THEN 0 ELSE CHOOSE j \in uses : \A u \in uses : u <= j

\* the step is a call of countTokens
StepIsCount == Len(counted') = Len(counted) + 1

\* C30: after any sequence of countTokens calls the cache holds at most
\* cacheSize entries, a number of at least 32; a call that hits leaves the same texts
\* cached with the text of the call in the most recent position; a call
\* that misses adds its text in the most recent position and, when the cache
\* was full, evicts exactly one entry, the one whose last use is older than
\* that of every other entry, never the text of the call.
C30_CacheIsBoundedLru ==
  [][StepIsCount =>
      \A before \in {tokenCountCache} : \A after \in {tokenCountCache'} :
        LET hit == text' \in CachedKeys(before)
            evicted == CachedKeys(before) \ CachedKeys(after)
        IN /\ ~cacheSize.nan
           /\ cacheSize.n >= TOKEN_COUNT_CACHE_SIZE
           /\ Len(after) <= cacheSize.n
           /\ Cardinality(CachedKeys(after)) = Len(after)
           /\ after[Len(after)].key = text'
           /\ \A a \in 1..(Len(after) - 1) :
                LastUse(counted', after[a].key) < LastUse(counted', after[a + 1].key)
           /\ hit => CachedKeys(after) = CachedKeys(before)
           /\ ~hit =>
                /\ CachedKeys(after) = (CachedKeys(before) \ evicted) \cup {text'}
                /\ IF Len(before) = cacheSize.n
                   THEN /\ Cardinality(evicted) = 1
                        /\ \A e \in evicted : \A c \in CachedKeys(before) \ evicted :
                             LastUse(counted, e) < LastUse(counted, c)
                   ELSE evicted = {}]_vars

\* a full cache that lost the second text of all and kept the first, which
\* was counted again before the cache overflowed
C30_Witness ==
  /\ pc = "counting"
  /\ ~cacheSize.nan
  /\ Len(tokenCountCache) = cacheSize.n
  /\ Len(counted) = cacheSize.n + 2
  /\ counted[cacheSize.n + 1] = 1
  /\ WordOfLength(1) \in CachedKeys(tokenCountCache)
  /\ WordOfLength(2) \notin CachedKeys(tokenCountCache)
  /\ text \in CachedKeys(tokenCountCache)

----------------------------------------------------------------------------
(* Claims about the cache directories. *)

\* C32: runs for two different input files share no mutable state: their
\* checkpoint directories differ and their vocabulary-memory files differ
C32_RunsShareNoState ==
  baseDirs # <<>> =>
    /\ cacheDir(baseDirs[1]) # cacheDir(baseDirs[2])
    /\ vocabMemoryPath(baseDirs[1]) # vocabMemoryPath(baseDirs[2])

====
